---- MODULE Spec2Model ----
(***************************************************************************)
(* State-machine model of the svitla data-room backend: the OAuth          *)
(* handshake (routes/auth.py: login, callback), the session bridge         *)
(* (exchange_token), account deletion, the credential manager              *)
(* (get_valid_credentials) and the Drive import pipeline                   *)
(* (routes/files.py: import_file, delete_file).                            *)
(*                                                                         *)
(* Tables are sets of rows; the upload folder is a set of blobs; a Flask   *)
(* session is one user id per browser.  A request runs in a slot r: its    *)
(* handler is cut at the points where it touches the database, the disk or *)
(* a remote service, so that two requests can interleave there.  The       *)
(* serial specifications let one request run at a time; the race           *)
(* specifications let two requests interleave.                             *)
(***************************************************************************)
EXTENDS Integers, Sequences, FiniteSets, TLC

VARIABLES
    users,          \* table users: rows [id, google_id, email]
    oauth_tokens,   \* table oauth_tokens: rows [user_id, access_token, refresh_token, expires_at]
    auth_tokens,    \* table auth_tokens: rows [token, user_id, expires_at]
    files,          \* table files: rows [id, user_id, name, mime_type, google_drive_id, local_path]
    disk,           \* upload folder: blobs [path, data]
    session,        \* browser -> session['user_id'] (NULL: key absent)
    now,            \* the clock (minutes)
    seq,            \* serials: next user id, token string, file id, blob data
    fk_enforced,    \* whether the database enforces foreign keys (PostgreSQL) or not (SQLite)
    pc,             \* request slot -> position in its handler
    rq,             \* request slot -> the request's arguments and locals
    resp,           \* request slot -> the response it produced
    pre,            \* request slot -> the stores as they were when it started (history)
    minted,         \* history: the (token, user id) pairs callback minted
    redeemed        \* history: token strings whose exchange has answered authenticated

vars == <<users, oauth_tokens, auth_tokens, files, disk, session, now, seq,
          fk_enforced, pc, rq, resp, pre, minted, redeemed>>

db == <<users, oauth_tokens, auth_tokens, files>>

-----------------------------------------------------------------------------
(* Bounds of the model *)

MaxTicks == 2      \* steps the clock takes in one behaviour
MaxTokens == 2     \* exchange tokens callback mints in one behaviour
MaxUsers == 2      \* user rows created in one behaviour
MaxBlobs == 2      \* blobs import writes in one behaviour
CredLife == 2      \* lifetime the provider gives an access token

(* Program constants *)

NULL == 0          \* Python None / SQL NULL / absent key; ids, serials and instants start at 1
TokenTTL == 5      \* timedelta(minutes=5)

Browsers == {"b1", "b2"}
Requests == {"r1", "r2"}
Subjects == {"g1", "g2"}
Emails == {"e1", "e2"}
AccessVals == {1}
RefreshVals == {1}

-----------------------------------------------------------------------------
(* Rows, views and responses *)

UserToDict(u) == [id |-> u.id, email |-> u.email]

NoResp ==
    [status |-> 0, error |-> "", authenticated |-> FALSE, user |-> {},
     file |-> {}, token |-> NULL, redirect |-> "", files |-> {},
     access_token |-> NULL, message |-> <<>>]

ErrorResp(code, msg) == [NoResp EXCEPT !.status = code, !.error = msg]

IdleRq ==
    [op |-> "", b |-> "", tok |-> NULL, row |-> {}, checked_at |-> NULL,
     after_redeem |-> FALSE,
     uid |-> NULL, fid |-> <<>>, ow |-> FALSE, name |-> <<>>, mime |-> "",
     existing |-> {}, pending |-> {}, final_name |-> <<>>, final_mime |-> "",
     local_path |-> <<>>, removed |-> {}, wrote |-> {}, looked |-> FALSE,
     fetched |-> FALSE, via |-> <<>>, id |-> NULL,
     has_fid |-> FALSE, meta_ok |-> FALSE, refresh |-> "", attempts |-> 0,
     issued |-> {}, g |-> "", e |-> "", cred |-> {}, oauth |-> {}, fault |-> "",
     granted |-> {}]

EmptyPre ==
    [auth_tokens |-> {}, files |-> {}, disk |-> {},
     session |-> [b \in Browsers |-> NULL], users |-> {}, oauth_tokens |-> {}]

Snapshot ==
    [auth_tokens |-> auth_tokens, files |-> files, disk |-> disk, session |-> session,
     users |-> users, oauth_tokens |-> oauth_tokens]

NotAuthenticatedNever(uid) == FALSE

(* "if not user_id" after session.get('user_id') *)
NotAuthenticated(uid) == uid = NULL

AllIdle == \A q \in Requests : pc[q] = "idle"

(* The request in slot r ends with response x. *)
Finish(r, q, x) ==
    /\ pc' = [pc EXCEPT ![r] = "done"]
    /\ rq' = [rq EXCEPT ![r] = q]
    /\ resp' = [resp EXCEPT ![r] = x]

(* The request in slot r moves on to position p. *)
Goto(r, p, q) ==
    /\ pc' = [pc EXCEPT ![r] = p]
    /\ rq' = [rq EXCEPT ![r] = q]
    /\ UNCHANGED resp

-----------------------------------------------------------------------------
(* models.py *)

AuthTokenIsExpiredLate(t, clock) == clock > t.expires_at

AuthTokenIsExpired(t, clock) == clock >= t.expires_at

OAuthTokenIsExpiredNullLive(o, clock) == o.expires_at # NULL /\ clock >= o.expires_at

OAuthTokenIsExpired(o, clock) == o.expires_at = NULL \/ clock >= o.expires_at

-----------------------------------------------------------------------------
(* routes/auth.py *)

CleanupExpiredTokens(rows, clock) == {t \in rows : ~(t.expires_at < clock)}

FindAuthTokenAny(rows, tok) == rows

FindAuthToken(rows, tok) == {t \in rows : t.token = tok}

DeleteAuthTokenForgotten(rows, row) == rows

DeleteAuthToken(rows, row) == {t \in rows : t.token # row.token}

SessionUserIdFirst(row) == 1

SessionUserId(row) == row.user_id

(* What the identity provider may hand back at instant clock. *)
ProviderCreds(clock) ==
    [token : AccessVals, refresh_token : {NULL} \cup RefreshVals,
     expiry : {NULL, clock + CredLife}]

(* The credentials of an ordinary consent: a refresh token and an expiry. *)
ConsentCreds(clock) ==
    {c \in ProviderCreds(clock) : c.refresh_token # NULL /\ c.expiry # NULL}

CallbackFaults == {"none", "fetch_token", "scope_changed", "scopes", "userinfo", "drive_list"}

(* The steps after the provider calls that can raise as well: the commit of
   the user and the oauth_tokens row, the sweep, the commit of the exchange
   token. *)
LateFaults == {"upsert", "sweep", "mint"}

(* str(e) of the exception a step raises, as a sequence of words and
   separators. *)
ExceptionText(fault) ==
    CASE fault = "fetch_token" -> <<"invalid_grant", "\n", "Bad", " ", "Request">>
      [] fault = "scope_changed" -> <<"Scope has changed", " ", "drive.readonly">>
      [] fault = "userinfo" -> <<"HttpError", "\r", "\n", "401">>
      [] fault = "drive_list" -> <<"HttpError", " ", "403", "&", "reason">>
      [] fault = "upsert" -> <<"IntegrityError", "\n", "INSERT">>
      [] fault = "sweep" -> <<"OperationalError", "\n", "DELETE">>
      [] fault = "mint" -> <<"OperationalError", "\n", "INSERT">>
      [] OTHER -> <<"IntegrityError", "\n", "UNIQUE">>

FriendlyMessage == <<"Please try signing in again.", " ", "revoke app access">>

(* .replace('\n', ' ').replace('\r', ' ') *)
Sanitize(text) == [i \in DOMAIN text |-> IF text[i] \in {"\n", "\r"} THEN " " ELSE text[i]]

PercentCode(ch) ==
    CASE ch = " " -> "%20"
      [] ch = "&" -> "%26"
      [] ch = "\n" -> "%0A"
      [] ch = "\r" -> "%0D"
      [] OTHER -> ch

(* urllib.parse.quote: every separator becomes its percent code. *)
Quote(text) == [i \in DOMAIN text |-> PercentCode(text[i])]

(* The except branch of callback: the redirect to the frontend. *)
CallbackRaised(r, q, fault) ==
    LET error_msg == Sanitize(ExceptionText(fault)) IN
    Finish(r, q, [NoResp EXCEPT !.status = 302, !.redirect = "frontend_error",
                                !.error = IF fault = "scope_changed"
                                          THEN "Please try signing in again"
                                          ELSE IF fault = "none" THEN "IntegrityError"
                                          ELSE fault,
                                !.message = IF fault = "scope_changed"
                                            THEN Quote(FriendlyMessage)
                                            ELSE Quote(error_msg)])

(* login: session.clear(), answer the authorization URL. *)
Login(r, b) ==
    /\ pc[r] = "idle"
    /\ session' = [session EXCEPT ![b] = NULL]
    /\ pre' = [pre EXCEPT ![r] = Snapshot]
    /\ Finish(r, [IdleRq EXCEPT !.op = "login", !.b = b],
              [NoResp EXCEPT !.status = 200, !.redirect = "auth_url"])
    /\ UNCHANGED <<db, disk, now, seq, fk_enforced, minted, redeemed>>

FindUserByEmail(rows, user_info) == {u \in rows : u.email = user_info.email}

(* User.query.filter_by(google_id=user_info['id']) *)
FindUser(rows, user_info) == {u \in rows : u.google_id = user_info.id}

(* users.email and users.google_id are unique: the INSERT of a second row
   with either value raises IntegrityError. *)
UserInsertRefused(rows, user_info) ==
    \E u \in rows : u.google_id = user_info.id \/ u.email = user_info.email

(* The oauth_tokens table after callback's update-or-create for user uid. *)
UpsertOAuthToken(rows, uid, c) ==
    LET old == {o \in rows : o.user_id = uid} IN
    IF old # {}
    THEN (rows \ old) \cup
         {[o EXCEPT !.access_token = c.token,
                    !.refresh_token = IF c.refresh_token # NULL
                                      THEN c.refresh_token ELSE o.refresh_token,
                    !.expires_at = c.expiry] : o \in old}
    ELSE rows \cup {[user_id |-> uid, access_token |-> c.token,
                     refresh_token |-> c.refresh_token, expires_at |-> c.expiry]}

(* callback: the provider redirected browser b back with subject g, email e
   and credentials c; fault names the step that raises or falls short. *)
Callback(r, b, g, e, c, fault) ==
    LET q == [IdleRq EXCEPT !.op = "callback", !.b = b, !.fault = fault]
        found == FindUser(users, [id |-> g, email |-> e])
        clash == found = {} /\ UserInsertRefused(users, [id |-> g, email |-> e])
        uid == IF found = {} THEN seq.user ELSE (CHOOSE u \in found : TRUE).id
    IN
    /\ pc[r] = "idle"
    /\ session' = [session EXCEPT ![b] = NULL]
    /\ pre' = [pre EXCEPT ![r] = Snapshot]
    /\ UNCHANGED <<files, disk, now, fk_enforced, redeemed>>
    /\ IF fault = "scopes"
       THEN /\ Finish(r, q, [NoResp EXCEPT !.status = 302, !.redirect = "auth_url"])
            /\ UNCHANGED <<users, oauth_tokens, auth_tokens, seq, minted>>
       ELSE IF fault \notin {"none", "sweep", "mint"} \/ clash
       THEN /\ CallbackRaised(r, q, fault)
            /\ UNCHANGED <<users, oauth_tokens, auth_tokens, seq, minted>>
       ELSE /\ seq.token <= MaxTokens
            /\ found = {} => seq.user <= MaxUsers
            /\ users' = IF found = {}
                        THEN users \cup {[id |-> uid, google_id |-> g, email |-> e]}
                        ELSE users
            /\ oauth_tokens' = UpsertOAuthToken(oauth_tokens, uid, c)
            /\ IF fault = "mint"
               THEN /\ auth_tokens' = CleanupExpiredTokens(auth_tokens, now)
                    /\ seq' = [seq EXCEPT !.user = IF found = {} THEN @ + 1 ELSE @]
                    /\ UNCHANGED minted
                    /\ CallbackRaised(r, q, fault)
               ELSE /\ auth_tokens' = (IF fault = "sweep" THEN auth_tokens
                                       ELSE CleanupExpiredTokens(auth_tokens, now)) \cup
                                      {[token |-> seq.token, user_id |-> uid,
                                        expires_at |-> now + TokenTTL]}
                    /\ seq' = [seq EXCEPT !.token = @ + 1,
                                          !.user = IF found = {} THEN @ + 1 ELSE @]
                    /\ minted' = minted \cup {<<seq.token, uid>>}
                    /\ Finish(r, q, [NoResp EXCEPT !.status = 302,
                                                   !.redirect = "frontend_success",
                                                   !.token = seq.token])

(* Config.GOOGLE_SCOPES *)
RequiredScopes == {"drive.readonly", "userinfo.email", "userinfo.profile", "openid"}

ScopesSufficientAlways(granted) == TRUE

(* required_scopes.issubset(granted_scopes) *)
ScopesSufficient(granted) == RequiredScopes \subseteq granted

(* callback in three steps, for requests that interleave.  First step:
   session.clear(), the code exchange that grants the scopes of granted, the
   scope check, the calls to the provider, and the two queries: the user of
   the subject and, for a user found, the user's oauth_tokens row. *)
CallbackBegin(r, b, g, e, c, granted) ==
    LET found == FindUser(users, [id |-> g, email |-> e])
        q0 == [IdleRq EXCEPT !.op = "callback", !.b = b, !.granted = granted]
        q == [q0 EXCEPT !.g = g, !.e = e, !.cred = {c},
                        !.row = found,
                        !.oauth = {o \in oauth_tokens : \E u \in found : o.user_id = u.id}]
    IN
    /\ pc[r] = "idle"
    /\ session' = [session EXCEPT ![b] = NULL]
    /\ pre' = [pre EXCEPT ![r] = Snapshot]
    /\ IF ScopesSufficient(granted)
       THEN Goto(r, "cb_commit", q)
       ELSE Finish(r, [q0 EXCEPT !.fault = "scopes"],
                   [NoResp EXCEPT !.status = 302, !.redirect = "auth_url"])
    /\ UNCHANGED <<db, disk, now, seq, fk_enforced, minted, redeemed>>

CommitOAuthTokenAsGiven(rows, loaded, uid, c) ==
    {[o EXCEPT !.access_token = c.token, !.refresh_token = c.refresh_token,
               !.expires_at = c.expiry] : o \in {x \in rows : x.user_id = uid}}
    \cup {x \in rows : x.user_id # uid}

CommitOAuthTokenInsert(rows, loaded, uid, c) ==
    rows \cup {[user_id |-> uid, access_token |-> c.token,
                refresh_token |-> c.refresh_token, expires_at |-> c.expiry]}

(* The oauth_tokens table after the commit for user uid, loaded being the row
   the query returned: an UPDATE of the columns whose assigned value differs
   from the loaded one, or an INSERT when no row was loaded. *)
CommitOAuthToken(rows, loaded, uid, c) ==
    LET cur == {o \in rows : o.user_id = uid} IN
    IF loaded # {}
    THEN (rows \ cur) \cup
         {[o EXCEPT !.access_token = IF \E l \in loaded : l.access_token # c.token
                                     THEN c.token ELSE @,
                    !.refresh_token = IF c.refresh_token # NULL /\
                                         \E l \in loaded : l.refresh_token # c.refresh_token
                                      THEN c.refresh_token ELSE @,
                    !.expires_at = IF \E l \in loaded : l.expires_at # c.expiry
                                   THEN c.expiry ELSE @] : o \in cur}
    ELSE rows \cup {[user_id |-> uid, access_token |-> c.token,
                     refresh_token |-> c.refresh_token, expires_at |-> c.expiry]}

CallbackError(r, q, msg) ==
    Finish(r, q, [NoResp EXCEPT !.status = 302, !.redirect = "frontend_error",
                                !.error = msg,
                                !.message = Quote(Sanitize(ExceptionText(msg)))])

(* Second step: the INSERT of a new user, the UPDATE or INSERT of the
   oauth_tokens row, and the commit of both. *)
CallbackCommit(r) ==
    LET q == rq[r]
        info == [id |-> q.g, email |-> q.e]
        uid == IF q.row = {} THEN seq.user ELSE (CHOOSE u \in q.row : TRUE).id
        cur == {o \in oauth_tokens : o.user_id = uid}
        refused == \/ q.row = {} /\ UserInsertRefused(users, info)
                   \/ q.row # {} /\ q.oauth = {} /\ cur # {}
                   \/ q.row # {} /\ q.oauth = {} /\ fk_enforced /\ q.row \cap users = {}
        stale == q.row # {} /\ q.oauth # {} /\ cur = {}
    IN
    /\ pc[r] = "cb_commit"
    /\ UNCHANGED <<auth_tokens, files, disk, session, now, fk_enforced, pre, minted, redeemed>>
    /\ IF refused \/ stale
       THEN /\ CallbackError(r, q, IF refused THEN "IntegrityError" ELSE "StaleDataError")
            /\ UNCHANGED <<users, oauth_tokens, seq>>
       ELSE /\ q.row = {} => seq.user <= MaxUsers
            /\ users' = IF q.row = {}
                        THEN users \cup {[id |-> uid, google_id |-> q.g, email |-> q.e]}
                        ELSE users
            /\ \E c \in q.cred : oauth_tokens' = CommitOAuthToken(oauth_tokens, q.oauth, uid, c)
            /\ seq' = [seq EXCEPT !.user = IF q.row = {} THEN @ + 1 ELSE @]
            /\ Goto(r, "cb_mint", [q EXCEPT !.uid = uid])

(* Third step: cleanup_expired_tokens, the INSERT of the exchange token and
   its commit, the redirect to the frontend. *)
CallbackMint(r) ==
    LET q == rq[r]
        swept == CleanupExpiredTokens(auth_tokens, now)
    IN
    /\ pc[r] = "cb_mint"
    /\ UNCHANGED <<users, oauth_tokens, files, disk, session, now, fk_enforced, pre, redeemed>>
    /\ IF fk_enforced /\ ~\E u \in users : u.id = q.uid
       THEN /\ auth_tokens' = swept
            /\ CallbackError(r, q, "IntegrityError")
            /\ UNCHANGED <<seq, minted>>
       ELSE /\ seq.token <= MaxTokens
            /\ auth_tokens' = swept \cup {[token |-> seq.token, user_id |-> q.uid,
                                           expires_at |-> now + TokenTTL]}
            /\ seq' = [seq EXCEPT !.token = @ + 1]
            /\ minted' = minted \cup {<<seq.token, q.uid>>}
            /\ Finish(r, q, [NoResp EXCEPT !.status = 302, !.redirect = "frontend_success",
                                           !.token = seq.token])

(* exchange_token, up to the lookup of the token row. *)
ExchangeBegin(r, b, tok) ==
    LET q == [IdleRq EXCEPT !.op = "exchange", !.b = b, !.tok = tok,
                            !.after_redeem = tok \in redeemed]
        found == FindAuthToken(auth_tokens, tok)
    IN
    /\ pc[r] = "idle"
    /\ pre' = [pre EXCEPT ![r] = Snapshot]
    /\ UNCHANGED <<db, disk, session, now, seq, fk_enforced, minted, redeemed>>
    /\ IF tok = NULL
       THEN Finish(r, q, ErrorResp(401, "No token provided"))
       ELSE IF found = {}
       THEN Finish(r, q, ErrorResp(401, "Invalid or expired token"))
       ELSE \E t \in found : Goto(r, "ex_found", [q EXCEPT !.row = {t}])

(* exchange_token: is_expired(), then delete and commit on either branch.  A
   DELETE that matches no row (another request deleted it first) only warns. *)
ExchangeRedeem(r) ==
    /\ pc[r] = "ex_found"
    /\ LET t == CHOOSE t \in rq[r].row : TRUE
           q == [rq[r] EXCEPT !.checked_at = now]
       IN
       /\ auth_tokens' = DeleteAuthToken(auth_tokens, t)
       /\ IF AuthTokenIsExpired(t, now)
          THEN Finish(r, q, ErrorResp(401, "Token expired"))
          ELSE Goto(r, "ex_redeemed", q)
    /\ UNCHANGED <<users, oauth_tokens, files, disk, session, now, seq, fk_enforced,
                   pre, minted, redeemed>>

(* exchange_token: set the session, then look the user up and answer. *)
ExchangeFinish(r) ==
    /\ pc[r] = "ex_redeemed"
    /\ LET t == CHOOSE t \in rq[r].row : TRUE
           uid == SessionUserId(t)
           user == {u \in users : u.id = uid}
       IN
       /\ session' = [session EXCEPT ![rq[r].b] = uid]
       /\ IF user = {}
          THEN /\ Finish(r, rq[r], ErrorResp(404, "User not found"))
               /\ UNCHANGED redeemed
          ELSE /\ Finish(r, rq[r], [NoResp EXCEPT !.status = 200, !.authenticated = TRUE,
                                                  !.user = {UserToDict(u) : u \in user}])
               /\ redeemed' = redeemed \cup {rq[r].tok}
    /\ UNCHANGED <<db, disk, now, seq, fk_enforced, pre, minted>>

(* get_current_user: the view of the session user. *)
GetCurrentUser(r, b) ==
    LET uid == session[b]
        q == [IdleRq EXCEPT !.op = "get_current_user", !.b = b, !.uid = uid]
        found == {u \in users : u.id = uid}
    IN
    /\ pc[r] = "idle"
    /\ pre' = [pre EXCEPT ![r] = Snapshot]
    /\ UNCHANGED <<db, disk, session, now, seq, fk_enforced, minted, redeemed>>
    /\ IF NotAuthenticated(uid)
       THEN Finish(r, q, ErrorResp(401, "Not authenticated"))
       ELSE IF found = {}
       THEN Finish(r, q, ErrorResp(404, "User not found"))
       ELSE Finish(r, q, [NoResp EXCEPT !.status = 200,
                                        !.user = {UserToDict(u) : u \in found}])

(* logout: session.pop('user_id'). *)
Logout(r, b) ==
    /\ pc[r] = "idle"
    /\ session' = [session EXCEPT ![b] = NULL]
    /\ pre' = [pre EXCEPT ![r] = Snapshot]
    /\ Finish(r, [IdleRq EXCEPT !.op = "logout", !.b = b],
              [NoResp EXCEPT !.status = 200])
    /\ UNCHANGED <<db, disk, now, seq, fk_enforced, minted, redeemed>>

StatusAuthenticatedSessionOnly(uid, urows, orows) == uid # NULL

(* auth_status answers authenticated: the session has a user id, the user's
   row exists, and so does the user's oauth_tokens row. *)
StatusAuthenticated(uid, urows, orows) ==
    /\ uid # NULL
    /\ \E u \in urows : u.id = uid
    /\ \E o \in orows : o.user_id = uid

(* auth_status: always 200, with the user's view when authenticated. *)
AuthStatus(r, b) ==
    LET uid == session[b]
        q == [IdleRq EXCEPT !.op = "auth_status", !.b = b, !.uid = uid]
    IN
    /\ pc[r] = "idle"
    /\ pre' = [pre EXCEPT ![r] = Snapshot]
    /\ UNCHANGED <<db, disk, session, now, seq, fk_enforced, minted, redeemed>>
    /\ IF StatusAuthenticated(uid, users, oauth_tokens)
       THEN Finish(r, q, [NoResp EXCEPT !.status = 200, !.authenticated = TRUE,
                                        !.user = {UserToDict(u) : u \in {v \in users : v.id = uid}}])
       ELSE Finish(r, q, [NoResp EXCEPT !.status = 200])

RemoveBlobsOfNone(blobs, rows) == blobs

(* os.remove(file.local_path) for every row of rows whose blob exists *)
RemoveBlobsOf(blobs, rows) == {bl \in blobs : \A f \in rows : f.local_path # bl.path}

(* delete_account: remove the user's blobs, then delete files, credential and
   user in one commit.  The commit fails when the database enforces the
   auth_tokens.user_id foreign key and a token of the user is outstanding; the
   blobs are gone by then. *)
DeleteAccount(r, b) ==
    LET q == [IdleRq EXCEPT !.op = "delete_account", !.b = b]
        uid == session[b]
        mine == {f \in files : f.user_id = uid}
        blocked == fk_enforced /\ \E t \in auth_tokens : t.user_id = uid
    IN
    /\ pc[r] = "idle"
    /\ pre' = [pre EXCEPT ![r] = Snapshot]
    /\ UNCHANGED <<auth_tokens, now, seq, fk_enforced, minted, redeemed>>
    /\ IF NotAuthenticated(uid)
       THEN /\ Finish(r, q, ErrorResp(401, "Not authenticated"))
            /\ UNCHANGED <<users, oauth_tokens, files, disk, session>>
       ELSE IF {u \in users : u.id = uid} = {}
       THEN /\ Finish(r, q, ErrorResp(404, "User not found"))
            /\ UNCHANGED <<users, oauth_tokens, files, disk, session>>
       ELSE /\ disk' = RemoveBlobsOf(disk, mine)
            /\ IF blocked
               THEN /\ Finish(r, q, ErrorResp(500, "IntegrityError"))
                    /\ UNCHANGED <<users, oauth_tokens, files, session>>
               ELSE /\ users' = {u \in users : u.id # uid}
                    /\ oauth_tokens' = {o \in oauth_tokens : o.user_id # uid}
                    /\ files' = files \ mine
                    /\ session' = [session EXCEPT ![b] = NULL]
                    /\ Finish(r, q, [NoResp EXCEPT !.status = 200])

-----------------------------------------------------------------------------
(* routes/auth.py: get_valid_credentials *)

StoreRefreshedNot(o, c) == o

(* the row after a refresh: the new access token, and the new expiry when the
   provider gave one; db.session.commit() *)
StoreRefreshed(o, c) ==
    [o EXCEPT !.access_token = c.token,
              !.expires_at = IF c.expiry # NULL THEN c.expiry ELSE @]

OnRefreshErrorStale(o, rows) ==
    [creds |-> {o.access_token}, dead |-> TRUE, rows |-> rows,
     refresh |-> "raised", attempts |-> 1]

(* the except arm: credentials.refresh raised; log and return None *)
OnRefreshError(o, rows) ==
    [creds |-> {}, dead |-> FALSE, rows |-> rows, refresh |-> "raised", attempts |-> 1]

(* get_valid_credentials(uid) at instant clock; refreshed is what the provider
   answers to a refresh ({}: the refresh raises).  The result is the returned
   credentials ({}: None), whether their access token is known to be dead, and
   the oauth_tokens table afterwards. *)
GetValidCredentials(rows, uid, clock, refreshed) ==
    LET mine == {o \in rows : o.user_id = uid} IN
    IF mine = {}
    THEN [creds |-> {}, dead |-> FALSE, rows |-> rows, refresh |-> "none", attempts |-> 0]
    ELSE LET o == CHOOSE x \in mine : TRUE IN
         IF OAuthTokenIsExpired(o, clock) /\ o.refresh_token # NULL
         THEN IF refreshed = {}
              THEN OnRefreshError(o, rows)
              ELSE LET c == CHOOSE x \in refreshed : TRUE
                       o2 == StoreRefreshed(o, c)
                   IN [creds |-> {c.token}, dead |-> FALSE,
                       rows |-> (rows \ {o}) \cup {o2},
                       refresh |-> "answered", attempts |-> 1]
         ELSE [creds |-> {o.access_token},
               dead |-> o.expires_at # NULL /\ clock >= o.expires_at,
               rows |-> rows, refresh |-> "none", attempts |-> 0]

(* A refresh that issues a fresh access token at instant clock. *)
IssuedAccessVals == {2}

IssuedAnswers(clock) ==
    {{[token |-> t, refresh_token |-> NULL, expiry |-> clock + CredLife]} :
        t \in IssuedAccessVals}

(* What a refresh may answer at instant clock. *)
RefreshAnswers(clock) ==
    {{}} \cup {{c} : c \in {x \in ProviderCreds(clock) :
                               x.refresh_token = NULL /\ x.expiry # NULL}}

-----------------------------------------------------------------------------
(* routes/files.py *)

GDoc == "application/vnd.google-apps.document"
GSheet == "application/vnd.google-apps.spreadsheet"
GSlides == "application/vnd.google-apps.presentation"
GForm == "application/vnd.google-apps.form"
Pdf == "application/pdf"
Xlsx == "application/vnd.openxmlformats-officedocument.spreadsheetml.sheet"
Plain == "text/plain"

(* mime_type.startswith('application/vnd.google-apps'), over the model's types *)
IsGoogleApps(m) == m \in {GDoc, GSheet, GSlides, GForm}

DotPdf == <<".", "p", "d", "f">>
DotXlsx == <<".", "x", "l", "s", "x">>

ExportMimeType(m) ==
    CASE m = GDoc -> Pdf
      [] m = GSheet -> Xlsx
      [] m = GSlides -> Pdf
      [] OTHER -> ""

FileExtension(m) ==
    CASE m = GDoc -> DotPdf
      [] m = GSheet -> DotXlsx
      [] m = GSlides -> DotPdf
      [] OTHER -> <<>>

UnsupportedNever(m) == FALSE

(* the elif chain's last arm: a Google Workspace type with no export row *)
Unsupported(m) == ExportMimeType(m) = "" /\ IsGoogleApps(m)

EndsWith(s, suffix) ==
    /\ Len(s) >= Len(suffix)
    /\ SubSeq(s, Len(s) - Len(suffix) + 1, Len(s)) = suffix

FinalNameKept(name, m) == name

FinalName(name, m) ==
    LET ext == FileExtension(m) IN
    IF ext # <<>> /\ ~EndsWith(name, ext) THEN name \o ext ELSE name

FinalMimeType(m) == IF ExportMimeType(m) # "" THEN ExportMimeType(m) ELSE m

(* the Drive request the content comes from: export_media to a type, or get_media *)
ByteSource(m) ==
    IF ExportMimeType(m) # "" THEN <<"export_media", ExportMimeType(m)>> ELSE <<"get_media">>

(* str.isalnum(), over the characters the model's names are made of *)
Alnum == {"a", "d", "f", "l", "p", "s", "x", "y", "1", "2", "3"}

IsSafeChar(c) == c \in Alnum \cup {".", "_", "-", " "}

SafeFilename(name) == SelectSeq(name, IsSafeChar)

Digit == <<"0", "1", "2", "3", "4", "5", "6", "7", "8", "9">>

RECURSIVE Str(_)
Str(n) == IF n < 10 THEN <<Digit[n + 1]>> ELSE Str(n \div 10) \o <<Digit[(n % 10) + 1]>>

(* f"{user_id}_{file_id}_{safe_filename}" under UPLOAD_FOLDER *)
LocalPath(uid, fid, file_name) ==
    Str(uid) \o <<"_">> \o fid \o <<"_">> \o SafeFilename(file_name)

FileToDict(f) ==
    [id |-> f.id, name |-> f.name, mime_type |-> f.mime_type,
     google_drive_id |-> f.google_drive_id]

ExistingFileOfAnyone(rows, uid, fid) == {f \in rows : f.google_drive_id = fid}

(* File.query.filter_by(user_id=..., google_drive_id=...) *)
ExistingFile(rows, uid, fid) == {f \in rows : f.user_id = uid /\ f.google_drive_id = fid}

BlobAt(path) == {bl \in disk : bl.path = path}

DuplicateAllowed(existing, ow) == FALSE

(* "if existing and not overwrite" *)
DuplicateRefused(existing, ow) == existing # {} /\ ~ow

KeepOldBlob(blobs, path) == blobs

(* os.remove(path) *)
RemoveBlob(blobs, path) == {bl \in blobs : bl.path # path}

KeepOldRows(rows, pending) == rows

(* the DELETEs of a commit: by primary key; one that matches no row only warns *)
DeleteRows(rows, pending) == {f \in rows : \A d \in pending : d.id # f.id}

(* import_file, up to the lookup of an earlier import of the same object.
   has_fid: the body names a fileId; refreshed: the provider's answer to a
   refresh; meta: the Drive metadata ({}: the call raises).  The model lets a
   request start while fewer than MaxBlobs blobs have been written. *)
ImportBegin(r, b, has_fid, fid, ow, refreshed, meta) ==
    LET uid == session[b]
        got == GetValidCredentials(oauth_tokens, uid, now, refreshed)
        q0 == [IdleRq EXCEPT !.op = "import", !.b = b, !.uid = uid, !.fid = fid, !.ow = ow,
                             !.has_fid = has_fid, !.checked_at = now]
        q == [q0 EXCEPT !.refresh = got.refresh, !.attempts = got.attempts,
                        !.meta_ok = (meta # {} /\ ~got.dead)]
    IN
    /\ pc[r] = "idle"
    /\ seq.blob <= MaxBlobs
    /\ pre' = [pre EXCEPT ![r] = Snapshot]
    /\ UNCHANGED <<users, auth_tokens, files, disk, session, now, seq, fk_enforced,
                   minted, redeemed>>
    /\ IF NotAuthenticated(uid)
       THEN /\ Finish(r, q0, ErrorResp(401, "Not authenticated"))
            /\ UNCHANGED oauth_tokens
       ELSE IF ~has_fid
       THEN /\ Finish(r, q0, ErrorResp(400, "fileId is required"))
            /\ UNCHANGED oauth_tokens
       ELSE /\ oauth_tokens' = got.rows
            /\ IF got.creds = {}
               THEN Finish(r, [q EXCEPT !.meta_ok = FALSE],
                           ErrorResp(401, "Invalid or expired credentials"))
               ELSE IF meta = {} \/ got.dead
               THEN Finish(r, q, ErrorResp(500, "metadata"))
               ELSE \E m \in meta :
                    LET q2 == [q EXCEPT !.name = m.name, !.mime = m.mimeType,
                                         !.looked = TRUE] IN
                    IF ExistingFile(files, uid, fid) = {}
                    THEN Goto(r, "im_classify", q2)
                    ELSE \E x \in ExistingFile(files, uid, fid) :
                         IF DuplicateRefused({x}, ow)
                         THEN Finish(r, [q2 EXCEPT !.existing = {x}],
                                     [ErrorResp(409, "File already imported")
                                        EXCEPT !.file = {FileToDict(x)}])
                         ELSE Goto(r, "im_existing", [q2 EXCEPT !.existing = {x}])

(* import_file, overwrite path: os.path.exists(existing.local_path); when the
   blob is absent only db.session.delete(existing) follows. *)
ImportCheckOld(r) ==
    /\ pc[r] = "im_existing"
    /\ LET x == CHOOSE x \in rq[r].existing : TRUE IN
       IF BlobAt(x.local_path) # {}
       THEN Goto(r, "im_remove", rq[r])
       ELSE Goto(r, "im_classify", [rq[r] EXCEPT !.pending = {x}])
    /\ UNCHANGED <<db, disk, session, now, seq, fk_enforced, pre, minted, redeemed>>

(* import_file, overwrite path: os.remove(existing.local_path), which raises
   when the blob has gone since the check, then db.session.delete(existing). *)
ImportRemoveOld(r) ==
    /\ pc[r] = "im_remove"
    /\ LET x == CHOOSE x \in rq[r].existing : TRUE IN
       IF BlobAt(x.local_path) = {}
       THEN /\ Finish(r, rq[r], ErrorResp(500, "FileNotFoundError"))
            /\ UNCHANGED disk
       ELSE /\ disk' = RemoveBlob(disk, x.local_path)
            /\ Goto(r, "im_classify",
                    [rq[r] EXCEPT !.pending = {x}, !.removed = BlobAt(x.local_path)])
    /\ UNCHANGED <<db, session, now, seq, fk_enforced, pre, minted, redeemed>>

(* import_file: pick the export target, then export or download the content;
   ok: the transfer does not raise. *)
ImportDownload(r, ok) ==
    /\ pc[r] = "im_classify"
    /\ LET q == rq[r]
           file_name == FinalName(q.name, q.mime)
       IN
       IF Unsupported(q.mime)
       THEN Finish(r, q, ErrorResp(400, "This Google Workspace file type is not supported"))
       ELSE IF ~ok
       THEN Finish(r, [q EXCEPT !.fetched = TRUE, !.via = ByteSource(q.mime)],
                   ErrorResp(500, "download"))
       ELSE Goto(r, "im_downloaded",
                 [q EXCEPT !.fetched = TRUE, !.via = ByteSource(q.mime),
                           !.final_name = file_name,
                           !.final_mime = FinalMimeType(q.mime),
                           !.local_path = LocalPath(q.uid, q.fid, file_name)])
    /\ UNCHANGED <<db, disk, session, now, seq, fk_enforced, pre, minted, redeemed>>

ImportWriteOutcomes == {"ok", "open_raises", "write_raises"}

(* import_file: open(local_path, 'wb') and write.  open creates or truncates
   the file, so a write that raises leaves a blob behind. *)
ImportWrite(r, outcome) ==
    /\ pc[r] = "im_downloaded"
    /\ LET q == rq[r]
           blob == [path |-> q.local_path, data |-> seq.blob]
       IN
       IF outcome = "open_raises"
       THEN /\ Finish(r, q, ErrorResp(500, "open"))
            /\ UNCHANGED <<disk, seq>>
       ELSE /\ disk' = RemoveBlob(disk, q.local_path) \cup {blob}
            /\ seq' = [seq EXCEPT !.blob = @ + 1]
            /\ IF outcome = "write_raises"
               THEN Finish(r, [q EXCEPT !.wrote = {blob}], ErrorResp(500, "write"))
               ELSE Goto(r, "im_written", [q EXCEPT !.wrote = {blob}])
    /\ UNCHANGED <<db, session, now, fk_enforced, pre, minted, redeemed>>

(* import_file: db.session.add(new_file); db.session.commit() -- the pending
   delete of the old row and the insert of the new one.  ok: the commit does
   not raise; it does raise when the database enforces files.user_id and the
   user row is gone. *)
ImportCommit(r, ok) ==
    /\ pc[r] = "im_written"
    /\ LET q == rq[r]
           new_file == [id |-> seq.file, user_id |-> q.uid, name |-> q.final_name,
                        mime_type |-> q.final_mime, google_drive_id |-> q.fid,
                        local_path |-> q.local_path]
           orphan == fk_enforced /\ ~\E u \in users : u.id = q.uid
       IN
       IF ~ok \/ orphan
       THEN /\ Finish(r, q, ErrorResp(500, "commit"))
            /\ UNCHANGED <<files, seq>>
       ELSE /\ files' = DeleteRows(files, q.pending) \cup {new_file}
            /\ seq' = [seq EXCEPT !.file = @ + 1]
            /\ Finish(r, q, [NoResp EXCEPT !.status = 201, !.file = {FileToDict(new_file)}])
    /\ UNCHANGED <<users, oauth_tokens, auth_tokens, disk, session, now, fk_enforced,
                   pre, minted, redeemed>>

OwnedFileOfAnyone(rows, id, uid) == {f \in rows : f.id = id}

(* File.query.filter_by(id=file_id, user_id=user_id) *)
OwnedFile(rows, id, uid) == {f \in rows : f.id = id /\ f.user_id = uid}

(* delete_file: remove the blob if it is there, delete the row, commit. *)
DeleteFile(r, b, id) ==
    LET uid == session[b]
        q == [IdleRq EXCEPT !.op = "delete_file", !.b = b, !.uid = uid, !.id = id]
        found == OwnedFile(files, id, uid)
    IN
    /\ pc[r] = "idle"
    /\ pre' = [pre EXCEPT ![r] = Snapshot]
    /\ UNCHANGED <<users, oauth_tokens, auth_tokens, session, now, seq, fk_enforced,
                   minted, redeemed>>
    /\ IF NotAuthenticated(uid)
       THEN /\ Finish(r, q, ErrorResp(401, "Not authenticated"))
            /\ UNCHANGED <<files, disk>>
       ELSE IF found = {}
       THEN /\ Finish(r, q, ErrorResp(404, "File not found"))
            /\ UNCHANGED <<files, disk>>
       ELSE /\ disk' = RemoveBlob(disk, (CHOOSE f \in found : TRUE).local_path)
            /\ files' = DeleteRows(files, found)
            /\ Finish(r, [q EXCEPT !.pending = found], [NoResp EXCEPT !.status = 200])

(* list_files: the views of the session user's File rows. *)
ListFiles(r, b) ==
    LET uid == session[b]
        q == [IdleRq EXCEPT !.op = "list_files", !.b = b, !.uid = uid]
    IN
    /\ pc[r] = "idle"
    /\ pre' = [pre EXCEPT ![r] = Snapshot]
    /\ UNCHANGED <<db, disk, session, now, seq, fk_enforced, minted, redeemed>>
    /\ IF NotAuthenticated(uid)
       THEN Finish(r, q, ErrorResp(401, "Not authenticated"))
       ELSE Finish(r, q, [NoResp EXCEPT !.status = 200,
                                        !.files = {FileToDict(f) : f \in {x \in files : x.user_id = uid}}])

(* list_drive_files: refreshed is the provider's answer to a refresh, ok says
   that the Drive listing does not raise. *)
ListDriveFiles(r, b, refreshed, ok) ==
    LET uid == session[b]
        q == [IdleRq EXCEPT !.op = "list_drive_files", !.b = b, !.uid = uid]
        got == GetValidCredentials(oauth_tokens, uid, now, refreshed)
    IN
    /\ pc[r] = "idle"
    /\ pre' = [pre EXCEPT ![r] = Snapshot]
    /\ UNCHANGED <<users, auth_tokens, files, disk, session, now, seq, fk_enforced,
                   minted, redeemed>>
    /\ IF NotAuthenticated(uid)
       THEN /\ Finish(r, q, ErrorResp(401, "Not authenticated"))
            /\ UNCHANGED oauth_tokens
       ELSE /\ oauth_tokens' = got.rows
            /\ IF got.creds = {}
               THEN Finish(r, q, ErrorResp(401, "Invalid or expired credentials"))
               ELSE IF ~ok \/ got.dead
               THEN Finish(r, q, ErrorResp(500, "drive_list"))
               ELSE Finish(r, q, [NoResp EXCEPT !.status = 200])

(* get_file: the view of one File row of the session user. *)
GetFile(r, b, id) ==
    LET uid == session[b]
        q == [IdleRq EXCEPT !.op = "get_file", !.b = b, !.uid = uid, !.id = id]
        found == OwnedFile(files, id, uid)
    IN
    /\ pc[r] = "idle"
    /\ pre' = [pre EXCEPT ![r] = Snapshot]
    /\ UNCHANGED <<db, disk, session, now, seq, fk_enforced, minted, redeemed>>
    /\ IF NotAuthenticated(uid)
       THEN Finish(r, q, ErrorResp(401, "Not authenticated"))
       ELSE IF found = {}
       THEN Finish(r, q, ErrorResp(404, "File not found"))
       ELSE Finish(r, q, [NoResp EXCEPT !.status = 200,
                                        !.file = {FileToDict(f) : f \in found}])

(* view_file and download_file: send_file of the blob of one File row of the
   session user; they differ in as_attachment only. *)
SendFile(r, b, id, op) ==
    LET uid == session[b]
        q == [IdleRq EXCEPT !.op = op, !.b = b, !.uid = uid, !.id = id]
        found == OwnedFile(files, id, uid)
    IN
    /\ pc[r] = "idle"
    /\ pre' = [pre EXCEPT ![r] = Snapshot]
    /\ UNCHANGED <<db, disk, session, now, seq, fk_enforced, minted, redeemed>>
    /\ IF NotAuthenticated(uid)
       THEN Finish(r, q, ErrorResp(401, "Not authenticated"))
       ELSE IF found = {}
       THEN Finish(r, q, ErrorResp(404, "File not found"))
       ELSE IF BlobAt((CHOOSE f \in found : TRUE).local_path) = {}
       THEN Finish(r, q, ErrorResp(404, "File not found on disk"))
       ELSE Finish(r, q, [NoResp EXCEPT !.status = 200,
                                        !.file = {FileToDict(f) : f \in found}])

ViewFile(r, b, id) == SendFile(r, b, id, "view_file")

DownloadFile(r, b, id) == SendFile(r, b, id, "download_file")

(* get_picker_config: the access token of the session user's credentials. *)
GetPickerConfig(r, b, refreshed) ==
    LET uid == session[b]
        got == GetValidCredentials(oauth_tokens, uid, now, refreshed)
        q == [IdleRq EXCEPT !.op = "get_picker_config", !.b = b, !.uid = uid,
                            !.checked_at = now]
    IN
    /\ pc[r] = "idle"
    /\ pre' = [pre EXCEPT ![r] = Snapshot]
    /\ UNCHANGED <<users, auth_tokens, files, disk, session, now, seq, fk_enforced,
                   minted, redeemed>>
    /\ IF NotAuthenticated(uid)
       THEN /\ Finish(r, q, ErrorResp(401, "Not authenticated"))
            /\ UNCHANGED oauth_tokens
       ELSE /\ oauth_tokens' = got.rows
            /\ IF got.creds = {}
               THEN Finish(r, [q EXCEPT !.refresh = got.refresh, !.attempts = got.attempts],
                           ErrorResp(401, "Invalid or expired credentials"))
               ELSE \E a \in got.creds :
                        Finish(r, [q EXCEPT !.refresh = got.refresh, !.attempts = got.attempts,
                                            !.issued = IF got.refresh = "answered"
                                                       THEN refreshed ELSE {}],
                               [NoResp EXCEPT !.status = 200, !.access_token = a])

(* get_picker_config with get_valid_credentials in two steps, for requests
   that interleave.  First step: read the row; when it is expired and has a
   refresh token the call to the provider is under way. *)
GetPickerConfigBegin(r, b) ==
    LET uid == session[b]
        q == [IdleRq EXCEPT !.op = "get_picker_config", !.b = b, !.uid = uid,
                            !.checked_at = now]
        mine == {o \in oauth_tokens : o.user_id = uid}
    IN
    /\ pc[r] = "idle"
    /\ pre' = [pre EXCEPT ![r] = Snapshot]
    /\ UNCHANGED <<db, disk, session, now, seq, fk_enforced, minted, redeemed>>
    /\ IF NotAuthenticated(uid)
       THEN Finish(r, q, ErrorResp(401, "Not authenticated"))
       ELSE IF mine = {}
       THEN Finish(r, [q EXCEPT !.refresh = "none"],
                   ErrorResp(401, "Invalid or expired credentials"))
       ELSE \E o \in mine :
            IF OAuthTokenIsExpired(o, now) /\ o.refresh_token # NULL
            THEN Goto(r, "gp_refreshing", [q EXCEPT !.row = {o}, !.attempts = 1])
            ELSE Finish(r, [q EXCEPT !.refresh = "none"],
                        [NoResp EXCEPT !.status = 200, !.access_token = o.access_token])

(* Second step: the provider answered (refreshed = {}: the call raised).  The
   commit is an UPDATE of the row by its key; when the row has gone in the
   meantime the commit raises and the call returns None. *)
GetPickerConfigRefreshed(r, refreshed) ==
    LET q == rq[r]
        cur == {o \in oauth_tokens : o.user_id = q.uid}
    IN
    /\ pc[r] = "gp_refreshing"
    /\ UNCHANGED <<users, auth_tokens, files, disk, session, now, seq, fk_enforced, pre,
                   minted, redeemed>>
    /\ IF refreshed = {} \/ cur = {}
       THEN /\ Finish(r, [q EXCEPT !.refresh = "raised"],
                      ErrorResp(401, "Invalid or expired credentials"))
            /\ UNCHANGED oauth_tokens
       ELSE \E c \in refreshed :
            /\ oauth_tokens' = (oauth_tokens \ cur) \cup {StoreRefreshed(o, c) : o \in cur}
            /\ Finish(r, [q EXCEPT !.refresh = "answered", !.issued = refreshed],
                      [NoResp EXCEPT !.status = 200, !.access_token = c.token])

-----------------------------------------------------------------------------
(* The environment *)

(* Time passes: the clock moves on by d; MaxTime is where the model stops it. *)
MaxTime == 1 + MaxTicks * TokenTTL

Tick(d) ==
    /\ now + d <= MaxTime
    /\ now' = now + d
    /\ UNCHANGED <<db, disk, session, seq, fk_enforced, pc, rq, resp, pre, minted, redeemed>>

(* The response of slot r has been delivered; the slot is free again. *)
Return(r) ==
    /\ pc[r] = "done"
    /\ pc' = [pc EXCEPT ![r] = "idle"]
    /\ rq' = [rq EXCEPT ![r] = IdleRq]
    /\ resp' = [resp EXCEPT ![r] = NoResp]
    /\ pre' = [pre EXCEPT ![r] = EmptyPre]
    /\ UNCHANGED <<db, disk, session, now, seq, fk_enforced, minted, redeemed>>

-----------------------------------------------------------------------------
(* Spec: the handshake and the session bridge, one request at a time,
   starting from the empty database. *)

TokenStrings == 0 .. (MaxTokens + 1)

Init ==
    /\ users = {}
    /\ oauth_tokens = {}
    /\ auth_tokens = {}
    /\ files = {}
    /\ disk = {}
    /\ session = [b \in Browsers |-> NULL]
    /\ now = 1
    /\ seq = [user |-> 1, token |-> 1, file |-> 1, blob |-> 1]
    /\ fk_enforced \in BOOLEAN
    /\ pc = [r \in Requests |-> "idle"]
    /\ rq = [r \in Requests |-> IdleRq]
    /\ resp = [r \in Requests |-> NoResp]
    /\ pre = [r \in Requests |-> EmptyPre]
    /\ minted = {}
    /\ redeemed = {}

DoLogin == \E b \in Browsers : AllIdle /\ Login("r1", b)

DoCallback ==
    \E b \in Browsers, g \in Subjects, e \in Emails, c \in ConsentCreds(now),
       fault \in CallbackFaults :
        AllIdle /\ Callback("r1", b, g, e, c, fault)

DoExchange == \E b \in Browsers, tok \in TokenStrings : AllIdle /\ ExchangeBegin("r1", b, tok)

DoExchangeRedeem == ExchangeRedeem("r1")

DoExchangeFinish == ExchangeFinish("r1")

DoLogout == \E b \in Browsers : AllIdle /\ Logout("r1", b)

DoDeleteAccount == \E b \in Browsers : AllIdle /\ DeleteAccount("r1", b)

(* The clock steps by the token lifetime: it stands before, on and after every
   token's expiry instant. *)
DoTick == Tick(TokenTTL)

DoReturn == Return("r1")

Next ==
    \/ DoLogin
    \/ DoCallback
    \/ DoExchange
    \/ DoExchangeRedeem
    \/ DoExchangeFinish
    \/ DoLogout
    \/ DoDeleteAccount
    \/ DoTick
    \/ DoReturn

Spec == Init /\ [][Next]_vars

-----------------------------------------------------------------------------
(* SpecImport: the import pipeline, one request at a time.  The initial state
   is one the handshake leaves: two users, each with a credential, browser b1
   signed in as user 1 and browser b2 as user 2, on a database that enforces
   foreign keys. *)

FileIds == {<<"x">>, <<"y">>}
Names == {<<"a">>, <<"a", ".", "p", "d", "f">>}
Mimes == {GDoc, GSheet, GSlides, GForm, Plain}

(* What the Drive metadata call may answer ({}: it raises). *)
MetaAnswers == {{}} \cup {{m} : m \in [name : Names, mimeType : Mimes]}

(* The credential rows user uid may hold at instant clock: one issued just now
   and one issued at instant 1, expired by now, with a refresh token. *)
CredShapes(uid, clock) ==
    {[user_id |-> uid, access_token |-> 1, refresh_token |-> 1, expires_at |-> clock + CredLife],
     [user_id |-> uid, access_token |-> 1, refresh_token |-> 1, expires_at |-> 1 + CredLife]}

InitImport ==
    /\ users = {[id |-> 1, google_id |-> "g1", email |-> "e1"],
                [id |-> 2, google_id |-> "g2", email |-> "e2"]}
    /\ now = 1 + TokenTTL
    /\ \E c \in CredShapes(1, now) :
           oauth_tokens = {c, [user_id |-> 2, access_token |-> 1, refresh_token |-> 1,
                               expires_at |-> now + CredLife]}
    /\ auth_tokens = {}
    /\ files = {}
    /\ disk = {}
    /\ session = [b \in Browsers |-> IF b = "b1" THEN 1 ELSE 2]
    /\ seq = [user |-> 3, token |-> 3, file |-> 1, blob |-> 1]
    /\ fk_enforced = TRUE
    /\ pc = [r \in Requests |-> "idle"]
    /\ rq = [r \in Requests |-> IdleRq]
    /\ resp = [r \in Requests |-> NoResp]
    /\ pre = [r \in Requests |-> EmptyPre]
    /\ minted = {<<1, 1>>, <<2, 2>>}
    /\ redeemed = {1, 2}

DoImport ==
    \E b \in Browsers, fid \in FileIds, ow \in BOOLEAN,
       refreshed \in RefreshAnswers(now), meta \in MetaAnswers :
        AllIdle /\ ImportBegin("r1", b, TRUE, fid, ow, refreshed, meta)

DoImportNoFileId == \E b \in Browsers : AllIdle /\ ImportBegin("r1", b, FALSE, <<>>, FALSE, {}, {})

DoImportCheckOld == ImportCheckOld("r1")

DoImportRemoveOld == ImportRemoveOld("r1")

DoImportDownload == \E ok \in BOOLEAN : ImportDownload("r1", ok)

DoImportWrite == \E outcome \in ImportWriteOutcomes : ImportWrite("r1", outcome)

DoImportCommit == \E ok \in BOOLEAN : ImportCommit("r1", ok)

DoDeleteFile == \E b \in Browsers, id \in 1 .. MaxBlobs : AllIdle /\ DeleteFile("r1", b, id)

NextImport ==
    \/ DoImport
    \/ DoImportNoFileId
    \/ DoImportCheckOld
    \/ DoImportRemoveOld
    \/ DoImportDownload
    \/ DoImportWrite
    \/ DoImportCommit
    \/ DoDeleteFile
    \/ DoReturn

SpecImport == InitImport /\ [][NextImport]_vars

-----------------------------------------------------------------------------
(* SpecExchangeRace: exchange requests interleave on one outstanding token.
   The initial state is the one a first callback for subject g1 leaves. *)

InitExchangeRace ==
    /\ users = {[id |-> 1, google_id |-> "g1", email |-> "e1"]}
    /\ oauth_tokens = {[user_id |-> 1, access_token |-> 1, refresh_token |-> 1,
                        expires_at |-> 1 + CredLife]}
    /\ auth_tokens = {[token |-> 1, user_id |-> 1, expires_at |-> 1 + TokenTTL]}
    /\ files = {}
    /\ disk = {}
    /\ session = [b \in Browsers |-> NULL]
    /\ now = 1
    /\ seq = [user |-> 2, token |-> 2, file |-> 1, blob |-> 1]
    /\ fk_enforced \in BOOLEAN
    /\ pc = [r \in Requests |-> "idle"]
    /\ rq = [r \in Requests |-> IdleRq]
    /\ resp = [r \in Requests |-> NoResp]
    /\ pre = [r \in Requests |-> EmptyPre]
    /\ minted = {<<1, 1>>}
    /\ redeemed = {}

RaceExchange ==
    \E r \in Requests, b \in Browsers, tok \in TokenStrings : ExchangeBegin(r, b, tok)

RaceExchangeRedeem == \E r \in Requests : ExchangeRedeem(r)

RaceExchangeFinish == \E r \in Requests : ExchangeFinish(r)

RaceReturn == \E r \in Requests : Return(r)

NextExchangeRace ==
    \/ RaceExchange
    \/ RaceExchangeRedeem
    \/ RaceExchangeFinish
    \/ DoTick
    \/ RaceReturn

SpecExchangeRace == InitExchangeRace /\ [][NextExchangeRace]_vars

-----------------------------------------------------------------------------
(* SpecImportRace: two import requests of browser b1 for the same Drive object
   interleave, starting from the state SpecImport starts from. *)

RaceFileIds == {<<"x">>}

RaceMetaAnswers == {{[name |-> <<"a">>, mimeType |-> m]} : m \in {Plain, GDoc}}

RaceImport ==
    \E r \in Requests, fid \in RaceFileIds, ow \in BOOLEAN,
       refreshed \in RefreshAnswers(now), meta \in RaceMetaAnswers :
        ImportBegin(r, "b1", TRUE, fid, ow, refreshed, meta)

RaceImportCheckOld == \E r \in Requests : ImportCheckOld(r)

RaceImportRemoveOld == \E r \in Requests : ImportRemoveOld(r)

RaceImportDownload == \E r \in Requests, ok \in BOOLEAN : ImportDownload(r, ok)

RaceImportWrite == \E r \in Requests, outcome \in ImportWriteOutcomes : ImportWrite(r, outcome)

RaceImportCommit == \E r \in Requests, ok \in BOOLEAN : ImportCommit(r, ok)

NextImportRace ==
    \/ RaceImport
    \/ RaceImportCheckOld
    \/ RaceImportRemoveOld
    \/ RaceImportDownload
    \/ RaceImportWrite
    \/ RaceImportCommit
    \/ RaceReturn

SpecImportRace == InitImport /\ [][NextImportRace]_vars

-----------------------------------------------------------------------------
(* SpecPaths: imports, one at a time, of Drive objects whose ids and names
   carry the underscore that local_filename uses as its separator. *)

PathFileIds == {<<"x">>, <<"x", "_", "y">>}

PathNames == {<<"a">>, <<"y", "_", "a">>}

PathMetaAnswers == {{[name |-> n, mimeType |-> Plain]} : n \in PathNames}

PathImport ==
    \E b \in Browsers, fid \in PathFileIds, refreshed \in RefreshAnswers(now),
       meta \in PathMetaAnswers :
        AllIdle /\ ImportBegin("r1", b, TRUE, fid, FALSE, refreshed, meta)

PathImportDownload == ImportDownload("r1", TRUE)

PathImportWrite == ImportWrite("r1", "ok")

PathImportCommit == ImportCommit("r1", TRUE)

NextPaths ==
    \/ PathImport
    \/ PathImportDownload
    \/ PathImportWrite
    \/ PathImportCommit
    \/ DoReturn

SpecPaths == InitImport /\ [][NextPaths]_vars

-----------------------------------------------------------------------------
(* SpecFiles: the data room of two signed-in users, one request at a time:
   imports of plain files with every fault of the pipeline, the file routes,
   the account routes. *)

FilesMetaAnswers == {{[name |-> <<"a">>, mimeType |-> Plain]}}

FilesImport ==
    \E b \in Browsers, fid \in FileIds, ow \in BOOLEAN,
       refreshed \in RefreshAnswers(now), meta \in FilesMetaAnswers :
        AllIdle /\ ImportBegin("r1", b, TRUE, fid, ow, refreshed, meta)

DoGetCurrentUser == \E b \in Browsers : AllIdle /\ GetCurrentUser("r1", b)

DoListFiles == \E b \in Browsers : AllIdle /\ ListFiles("r1", b)

DoListDriveFiles ==
    \E b \in Browsers, refreshed \in RefreshAnswers(now), ok \in BOOLEAN :
        AllIdle /\ ListDriveFiles("r1", b, refreshed, ok)

DoGetFile == \E b \in Browsers, id \in 1 .. MaxBlobs : AllIdle /\ GetFile("r1", b, id)

DoViewFile == \E b \in Browsers, id \in 1 .. MaxBlobs : AllIdle /\ ViewFile("r1", b, id)

DoDownloadFile == \E b \in Browsers, id \in 1 .. MaxBlobs : AllIdle /\ DownloadFile("r1", b, id)

DoGetPickerConfig ==
    \E b \in Browsers, refreshed \in RefreshAnswers(now) :
        AllIdle /\ GetPickerConfig("r1", b, refreshed)

NextFiles ==
    \/ FilesImport
    \/ DoImportCheckOld
    \/ DoImportRemoveOld
    \/ DoImportDownload
    \/ DoImportWrite
    \/ DoImportCommit
    \/ DoDeleteFile
    \/ DoGetCurrentUser
    \/ DoListFiles
    \/ DoListDriveFiles
    \/ DoGetFile
    \/ DoViewFile
    \/ DoDownloadFile
    \/ DoGetPickerConfig
    \/ DoLogout
    \/ DoDeleteAccount
    \/ DoReturn

SpecFiles == InitImport /\ [][NextFiles]_vars

-----------------------------------------------------------------------------
(* SpecCreds: one signed-in user whose stored credential is whatever callback
   stores for a new user from the provider's answer; the routes that call
   get_valid_credentials, one request at a time, while the clock moves on. *)

InitCreds ==
    /\ users = {[id |-> 1, google_id |-> "g1", email |-> "e1"]}
    /\ now = 1
    /\ \E c \in ProviderCreds(now) : oauth_tokens = UpsertOAuthToken({}, 1, c)
    /\ auth_tokens = {}
    /\ files = {}
    /\ disk = {}
    /\ session = [b \in Browsers |-> IF b = "b1" THEN 1 ELSE NULL]
    /\ seq = [user |-> 2, token |-> 2, file |-> 1, blob |-> 1]
    /\ fk_enforced = TRUE
    /\ pc = [r \in Requests |-> "idle"]
    /\ rq = [r \in Requests |-> IdleRq]
    /\ resp = [r \in Requests |-> NoResp]
    /\ pre = [r \in Requests |-> EmptyPre]
    /\ minted = {<<1, 1>>}
    /\ redeemed = {1}

CredsGetPickerConfig ==
    \E refreshed \in RefreshAnswers(now) \cup IssuedAnswers(now) : AllIdle /\ GetPickerConfig("r1", "b1", refreshed)

CredsListDriveFiles ==
    \E refreshed \in RefreshAnswers(now), ok \in BOOLEAN :
        AllIdle /\ ListDriveFiles("r1", "b1", refreshed, ok)

CredsImport ==
    \E ow \in BOOLEAN, refreshed \in RefreshAnswers(now), meta \in {{}} \cup FilesMetaAnswers :
        AllIdle /\ ImportBegin("r1", "b1", TRUE, <<"x">>, ow, refreshed, meta)

NextCreds ==
    \/ CredsGetPickerConfig
    \/ CredsListDriveFiles
    \/ CredsImport
    \/ DoImportCheckOld
    \/ DoImportRemoveOld
    \/ DoImportDownload
    \/ DoImportWrite
    \/ DoImportCommit
    \/ DoTick
    \/ DoReturn

SpecCreds == InitCreds /\ [][NextCreds]_vars

-----------------------------------------------------------------------------
(* SpecRefreshRace: two get_picker_config requests of browser b1 interleave
   while the clock moves on; every refresh is answered with a token of its own. *)

RaceIssuedAnswers(clock) ==
    {{}} \cup {{[token |-> t, refresh_token |-> NULL, expiry |-> clock + CredLife]} :
                  t \in {2, 3}}

RacePickerBegin == \E r \in Requests : GetPickerConfigBegin(r, "b1")

RacePickerRefreshed ==
    \E r \in Requests, refreshed \in RaceIssuedAnswers(now) : GetPickerConfigRefreshed(r, refreshed)

NextRefreshRace ==
    \/ RacePickerBegin
    \/ RacePickerRefreshed
    \/ RaceReturn
    \/ DoTick

SpecRefreshRace == InitImport /\ [][NextRefreshRace]_vars

-----------------------------------------------------------------------------
(* SpecCallbackRace: callbacks of browser b2 for a known and for a new
   subject interleave with each other and with credential refreshes of the
   signed-in browser b1. *)

(* The scope sets the provider grants: the required ones, the required ones
   without Drive, the required ones and one more. *)
GrantedScopes ==
    {RequiredScopes, RequiredScopes \ {"drive.readonly"}, RequiredScopes \cup {"drive.file"}}

RaceCallbackBegin ==
    \E r \in Requests, g \in Subjects, e \in Emails, c \in ConsentCreds(now),
       granted \in GrantedScopes :
        CallbackBegin(r, "b2", g, e, c, granted)

RaceCallbackCommit == \E r \in Requests : CallbackCommit(r)

RaceCallbackMint == \E r \in Requests : CallbackMint(r)

NextCallbackRace ==
    \/ RaceCallbackBegin
    \/ RaceCallbackCommit
    \/ RaceCallbackMint
    \/ RacePickerBegin
    \/ RacePickerRefreshed
    \/ RaceReturn

SpecCallbackRace == InitCreds /\ [][NextCallbackRace]_vars

-----------------------------------------------------------------------------
(* SpecScopeRetry: one login flow of browser b1.  Slot r1 holds the response
   that sent the browser to the provider, slot r2 the callback the provider
   sent it back to; following a redirect to the provider moves the response
   of r2 to r1. *)

SentToProvider(r) == pc[r] = "done" /\ resp[r].redirect = "auth_url"

FlowLogin == AllIdle /\ Login("r1", "b1")

FlowCallback ==
    /\ SentToProvider("r1")
    /\ \E g \in Subjects, e \in Emails, c \in ConsentCreds(now), fault \in CallbackFaults :
           Callback("r2", "b1", g, e, c, fault)

FlowFollow ==
    /\ SentToProvider("r1")
    /\ SentToProvider("r2")
    /\ pc' = [pc EXCEPT !["r2"] = "idle"]
    /\ rq' = [rq EXCEPT !["r1"] = rq["r2"], !["r2"] = IdleRq]
    /\ resp' = [resp EXCEPT !["r1"] = resp["r2"], !["r2"] = NoResp]
    /\ pre' = [pre EXCEPT !["r1"] = pre["r2"], !["r2"] = EmptyPre]
    /\ UNCHANGED <<db, disk, session, now, seq, fk_enforced, minted, redeemed>>

NextScopeRetry ==
    \/ FlowLogin
    \/ FlowCallback
    \/ FlowFollow
    \/ RaceReturn
    \/ DoTick

SpecScopeRetry == Init /\ [][NextScopeRetry]_vars

-----------------------------------------------------------------------------
(* SpecCallbackFaults: callbacks, one at a time, in which any step may raise,
   starting from the empty database. *)

FaultyCallback ==
    \E b \in Browsers, g \in Subjects, e \in Emails, c \in ConsentCreds(now),
       fault \in CallbackFaults \cup LateFaults :
        Callback("r1", b, g, e, c, fault)

NextCallbackFaults ==
    \/ FaultyCallback
    \/ DoTick
    \/ DoReturn

SpecCallbackFaults == Init /\ [][NextCallbackFaults]_vars

-----------------------------------------------------------------------------
(* SpecSession: one user with a credential; either browser may hold a session
   of that user.  Status requests, one at a time, between logins, logouts
   and the deletion of the account. *)

InitSession ==
    /\ users = {[id |-> 1, google_id |-> "g1", email |-> "e1"]}
    /\ now = 1
    /\ \E c \in ProviderCreds(now) : oauth_tokens = UpsertOAuthToken({}, 1, c)
    /\ auth_tokens = {}
    /\ files = {}
    /\ disk = {}
    /\ session \in [Browsers -> {NULL, 1}]
    /\ seq = [user |-> 2, token |-> 3, file |-> 1, blob |-> 1]
    /\ fk_enforced = TRUE
    /\ pc = [r \in Requests |-> "idle"]
    /\ rq = [r \in Requests |-> IdleRq]
    /\ resp = [r \in Requests |-> NoResp]
    /\ pre = [r \in Requests |-> EmptyPre]
    /\ minted = {<<1, 1>>, <<2, 1>>}
    /\ redeemed = {1, 2}

DoAuthStatus == \E b \in Browsers : AllIdle /\ AuthStatus("r1", b)

NextSession ==
    \/ DoAuthStatus
    \/ DoGetCurrentUser
    \/ DoLogin
    \/ DoLogout
    \/ DoDeleteAccount
    \/ DoTick
    \/ DoReturn

SpecSession == InitSession /\ [][NextSession]_vars

-----------------------------------------------------------------------------
(* SpecAccount: one user with a credential and one exchange token not yet
   redeemed; either browser may hold a session of that user.  Requests, one
   at a time: status, the routes that need a signed-in user, logout, the
   deletion of the account, and the exchange of the token. *)

InitAccount ==
    /\ users = {[id |-> 1, google_id |-> "g1", email |-> "e1"]}
    /\ now = 1
    /\ \E c \in ConsentCreds(now) : oauth_tokens = UpsertOAuthToken({}, 1, c)
    /\ auth_tokens = {[token |-> 3, user_id |-> 1, expires_at |-> now + TokenTTL]}
    /\ files = {}
    /\ disk = {}
    /\ session \in [Browsers -> {NULL, 1}]
    /\ seq = [user |-> 2, token |-> 4, file |-> 1, blob |-> 1]
    /\ fk_enforced \in BOOLEAN
    /\ pc = [r \in Requests |-> "idle"]
    /\ rq = [r \in Requests |-> IdleRq]
    /\ resp = [r \in Requests |-> NoResp]
    /\ pre = [r \in Requests |-> EmptyPre]
    /\ minted = {<<1, 1>>, <<2, 1>>, <<3, 1>>}
    /\ redeemed = {1, 2}

NextAccount ==
    \/ DoAuthStatus
    \/ DoGetCurrentUser
    \/ DoListFiles
    \/ DoGetPickerConfig
    \/ FilesImport
    \/ DoImportCheckOld
    \/ DoImportRemoveOld
    \/ DoImportDownload
    \/ DoImportWrite
    \/ DoImportCommit
    \/ DoLogout
    \/ DoDeleteAccount
    \/ DoExchange
    \/ DoExchangeRedeem
    \/ DoExchangeFinish
    \/ DoTick
    \/ DoReturn

SpecAccount == InitAccount /\ [][NextAccount]_vars

-----------------------------------------------------------------------------
(* SpecRenewal: the user of subject g1 signs in again from browser b2, the
   provider answering with or without a refresh token, while browser b1's
   requests refresh the credential. *)

RenewalCreds(clock) ==
    [token : AccessVals, refresh_token : {NULL, 1, 2}, expiry : {clock + CredLife}]

RenewalCallbackBegin ==
    \E r \in Requests, c \in RenewalCreds(now) :
        CallbackBegin(r, "b2", "g1", "e1", c, RequiredScopes)

NextRenewal ==
    \/ RenewalCallbackBegin
    \/ RaceCallbackCommit
    \/ RaceCallbackMint
    \/ RacePickerBegin
    \/ RacePickerRefreshed
    \/ RaceReturn

SpecRenewal == InitCreds /\ [][NextRenewal]_vars

-----------------------------------------------------------------------------
(* Properties of the session bridge *)

ExchangeDone(r) == pc[r] = "done" /\ rq[r].op = "exchange"

TokenInStore(tok) == \E t \in auth_tokens : t.token = tok

(* C1: when two exchange requests presenting the same token string overlap,
   exactly one answers authenticated and the other answers 401. *)
C1_OneRedemptionUnderRace ==
    \A r1 \in Requests, r2 \in Requests :
        ( /\ r1 # r2
          /\ ExchangeDone(r1) /\ ExchangeDone(r2)
          /\ rq[r1].tok = rq[r2].tok
          /\ resp[r1].authenticated )
        => resp[r2].status = 401 /\ ~resp[r2].authenticated

(* C2: an exchange that answers authenticated has deleted the token row by
   then, and an exchange of a token string that starts after such an answer
   gets 401 and leaves the session as it was. *)
C2_RedeemedTokenIsGone ==
    \A r \in Requests :
        ExchangeDone(r) =>
            /\ resp[r].authenticated => ~TokenInStore(rq[r].tok)
            /\ rq[r].after_redeem =>
                    /\ resp[r].status = 401
                    /\ session = pre[r].session

C2_Witness ==
    \E r \in Requests : ExchangeDone(r) /\ rq[r].after_redeem /\ rq[r].tok \in redeemed

(* C3: an exchange that found the token row and checked it at or after its
   expiry instant answers 401 "Token expired", leaves the session as it was,
   and the row is gone from the store. *)
C3_ExpiredTokenRejected ==
    \A r \in Requests :
        ( /\ ExchangeDone(r)
          /\ rq[r].checked_at # NULL
          /\ \E t \in rq[r].row : t.expires_at <= rq[r].checked_at )
        => /\ resp[r].status = 401
           /\ resp[r].error = "Token expired"
           /\ session = pre[r].session
           /\ ~TokenInStore(rq[r].tok)

C3_Witness ==
    \E r \in Requests :
        /\ ExchangeDone(r)
        /\ \E t \in rq[r].row : t.expires_at = rq[r].checked_at
        /\ resp[r].error = "Token expired"

(* C4: an exchange with an empty, absent or unknown token string answers 401
   and leaves both the token store and the session as they were. *)
C4_UnknownTokenRejected ==
    \A r \in Requests :
        ( /\ ExchangeDone(r)
          /\ \/ rq[r].tok = NULL
             \/ ~\E t \in pre[r].auth_tokens : t.token = rq[r].tok )
        => /\ resp[r].status = 401
           /\ resp[r].error \in {"No token provided", "Invalid or expired token"}
           /\ ~resp[r].authenticated
           /\ auth_tokens = pre[r].auth_tokens
           /\ session = pre[r].session

C4_Witness ==
    \E r \in Requests :
        /\ ExchangeDone(r)
        /\ rq[r].tok # NULL
        /\ auth_tokens # {}
        /\ ~\E t \in pre[r].auth_tokens : t.token = rq[r].tok

C5_OnSuccess ==
    \A r \in Requests :
        ExchangeDone(r) /\ resp[r].authenticated =>
            \E t \in rq[r].row :
                /\ t.token = rq[r].tok
                /\ <<t.token, t.user_id>> \in minted
                /\ session[rq[r].b] = t.user_id
                /\ resp[r].status = 200
                /\ resp[r].user = {UserToDict(u) : u \in {v \in users : v.id = t.user_id}}
                /\ resp[r].user # {}

C5_OnlyExchange ==
    \A b \in Browsers :
        session'[b] # session[b] /\ session'[b] # NULL =>
            \E r \in Requests :
                /\ pc[r] = "ex_redeemed" /\ pc'[r] = "done"
                /\ rq[r].op = "exchange" /\ rq[r].b = b
                /\ \E t \in rq[r].row :
                       /\ t.user_id = session'[b]
                       /\ <<rq[r].tok, t.user_id>> \in minted

(* C5: a session's user id becomes u only in an exchange that redeemed a token
   callback minted for u; an exchange that answers authenticated has set the
   session to the user id bound to the redeemed token and returns that user's
   view. *)
C5_SessionBoundToMintedUser == []C5_OnSuccess /\ [][C5_OnlyExchange]_vars

C5_Witness ==
    \E r \in Requests :
        /\ ExchangeDone(r) /\ resp[r].authenticated
        /\ session[rq[r].b] = 2
        /\ \E b \in Browsers : session[b] = 1

-----------------------------------------------------------------------------
(* Properties of the import pipeline *)

ImportDone(r) == pc[r] = "done" /\ rq[r].op = "import"

(* the File rows of one (user, Drive object) pair *)
RowsFor(rows, uid, fid) == {f \in rows : f.user_id = uid /\ f.google_drive_id = fid}

PriorRows(r) == RowsFor(pre[r].files, rq[r].uid, rq[r].fid)

(* every File row names a blob on disk, and every blob is named by a File row *)
LockStep(rows, blobs) ==
    /\ \A f \in rows : \E bl \in blobs : bl.path = f.local_path
    /\ \A bl \in blobs : \E f \in rows : f.local_path = bl.path

(* C6: an import without overwrite of a pair that already has a File row
   answers 409 with that row, transfers and writes nothing, and the pair still
   has exactly one row. *)
C6_DuplicateImportRefused ==
    \A r \in Requests :
        ( /\ ImportDone(r) /\ rq[r].looked
          /\ ~rq[r].ow
          /\ PriorRows(r) # {} )
        => /\ resp[r].status = 409
           /\ resp[r].file # {}
           /\ resp[r].file \subseteq {FileToDict(x) : x \in PriorRows(r)}
           /\ ~rq[r].fetched
           /\ rq[r].wrote = {}
           /\ disk = pre[r].disk
           /\ files = pre[r].files
           /\ Cardinality(RowsFor(files, rq[r].uid, rq[r].fid)) = 1

C6_Witness ==
    \E r \in Requests :
        /\ ImportDone(r) /\ rq[r].looked /\ ~rq[r].ow
        /\ PriorRows(r) # {}
        /\ resp[r].status = 409

(* C7: an import with overwrite that answers 201 for a pair that had a File
   row leaves exactly one row for the pair, the new one; the old row's id is
   gone, and so is the blob the old row named. *)
C7_OverwriteReplaces ==
    \A r \in Requests :
        ( /\ ImportDone(r) /\ resp[r].status = 201
          /\ rq[r].ow
          /\ PriorRows(r) # {} )
        => /\ Cardinality(RowsFor(files, rq[r].uid, rq[r].fid)) = 1
           /\ {FileToDict(f) : f \in RowsFor(files, rq[r].uid, rq[r].fid)} = resp[r].file
           /\ \A x \in PriorRows(r) :
                  /\ ~\E f \in files : f.id = x.id
                  /\ \A bl \in pre[r].disk : bl.path = x.local_path => bl \notin disk

C7_Witness ==
    \E r \in Requests :
        /\ ImportDone(r) /\ resp[r].status = 201 /\ rq[r].ow
        /\ \E x \in PriorRows(r) :
               /\ x.local_path # rq[r].local_path
               /\ \E bl \in pre[r].disk : bl.path = x.local_path

(* C8: an import that fails after the overwrite path removed the old blob
   leaves rows and blobs in lock-step, as they were when it started. *)
C8_FailedOverwriteKeepsLockStep ==
    \A r \in Requests :
        ( /\ ImportDone(r) /\ resp[r].status # 201
          /\ rq[r].removed # {}
          /\ LockStep(pre[r].files, pre[r].disk) )
        => LockStep(files, disk)

(* C9: once two imports of the same pair have both answered without a failure
   (201 or 409), the pair has at most one File row, its blob is on disk and no
   blob is left without a row. *)
C9_ConcurrentImportsSerialized ==
    \A r1 \in Requests, r2 \in Requests :
        ( /\ r1 # r2
          /\ ImportDone(r1) /\ ImportDone(r2)
          /\ rq[r1].uid = rq[r2].uid /\ rq[r1].fid = rq[r2].fid
          /\ resp[r1].status \in {201, 409} /\ resp[r2].status \in {201, 409} )
        => /\ Cardinality(RowsFor(files, rq[r1].uid, rq[r1].fid)) <= 1
           /\ LockStep(files, disk)

(* the proprietary types with no row in the export table *)
OutsideExportTable(m) == m = GForm

(* C10: an import that reaches the classification of a proprietary type with
   no export row answers 400, transfers nothing, writes no blob and creates no
   File row. *)
C10_UnsupportedFormatRefused ==
    \A r \in Requests :
        ( /\ ImportDone(r) /\ rq[r].looked
          /\ OutsideExportTable(rq[r].mime)
          /\ PriorRows(r) = {} \/ rq[r].ow )
        => /\ resp[r].status = 400
           /\ ~rq[r].fetched
           /\ rq[r].wrote = {}
           /\ files = pre[r].files
           /\ disk \subseteq pre[r].disk

C10_Witness ==
    \E r \in Requests :
        /\ ImportDone(r) /\ rq[r].looked
        /\ OutsideExportTable(rq[r].mime)
        /\ resp[r].status = 400
        /\ files # {}

(* the File row a 201 response speaks of *)
StoredRow(r) == {f \in files : \E v \in resp[r].file : v.id = f.id}

(* C11: a successful import stores what the conversion table says: documents
   and presentations are exported as PDF under a name ending in .pdf,
   spreadsheets as XLSX under a name ending in .xlsx, and every other type is
   downloaded raw with its content type and name unchanged. *)
C11_ConversionTable ==
    \A r \in Requests :
        (ImportDone(r) /\ resp[r].status = 201) =>
            /\ StoredRow(r) # {}
            /\ \A f \in StoredRow(r) :
                LET m == rq[r].mime
                    n == Len(f.name)
                IN
                /\ m \in {GDoc, GSlides} =>
                       /\ rq[r].via = <<"export_media", "application/pdf">>
                       /\ f.mime_type = "application/pdf"
                       /\ n >= 4 /\ SubSeq(f.name, n - 3, n) = <<".", "p", "d", "f">>
                       /\ f.name \in {rq[r].name, rq[r].name \o <<".", "p", "d", "f">>}
                /\ m = GSheet =>
                       /\ rq[r].via = <<"export_media",
                                        "application/vnd.openxmlformats-officedocument.spreadsheetml.sheet">>
                       /\ f.mime_type = "application/vnd.openxmlformats-officedocument.spreadsheetml.sheet"
                       /\ n >= 5 /\ SubSeq(f.name, n - 4, n) = <<".", "x", "l", "s", "x">>
                       /\ f.name \in {rq[r].name, rq[r].name \o <<".", "x", "l", "s", "x">>}
                /\ m \notin {GDoc, GSheet, GSlides} =>
                       /\ rq[r].via = <<"get_media">>
                       /\ f.mime_type = m
                       /\ f.name = rq[r].name

C11_Witness ==
    \E r \in Requests :
        /\ ImportDone(r) /\ resp[r].status = 201
        /\ rq[r].mime = GSheet
        /\ \E f \in StoredRow(r) : f.name = rq[r].name \o <<".", "x", "l", "s", "x">>

(* C12: the local path an import derives differs from the path of every File
   row of another (user, Drive object) pair, and equals the path of a row of
   the same pair with the same name. *)
C12_PathsNeverCollide ==
    \A r \in Requests :
        (ImportDone(r) /\ rq[r].local_path # <<>>) =>
            \A f \in files :
                /\ (f.user_id # rq[r].uid \/ f.google_drive_id # rq[r].fid)
                       => f.local_path # rq[r].local_path
                /\ (f.user_id = rq[r].uid /\ f.google_drive_id = rq[r].fid
                        /\ f.name = rq[r].final_name)
                       => f.local_path = rq[r].local_path

-----------------------------------------------------------------------------
(* Properties of the file and account routes *)

OpDone(r, op) == pc[r] = "done" /\ rq[r].op = op

(* the user the request's browser was signed in as when the request began *)
Caller(r) == pre[r].session[rq[r].b]

(* the blobs the File rows of rows name *)
BlobsOf(rows, blobs) == {bl \in blobs : \E f \in rows : f.local_path = bl.path}

(* C13: after delete_account answers 200 the user's File rows, the blobs those
   rows named, the user's credential and the user row are gone, and the other
   users' rows, credentials and blobs are as they were. *)
C13_AccountDeletedWhole ==
    \A r \in Requests :
        (OpDone(r, "delete_account") /\ resp[r].status = 200) =>
            LET uid == Caller(r)
                mine == {f \in pre[r].files : f.user_id = uid}
            IN
            /\ ~\E f \in files : f.user_id = uid
            /\ BlobsOf(mine, disk) = {}
            /\ ~\E o \in oauth_tokens : o.user_id = uid
            /\ ~\E u \in users : u.id = uid
            /\ users = {u \in pre[r].users : u.id # uid}
            /\ oauth_tokens = {o \in pre[r].oauth_tokens : o.user_id # uid}
            /\ files = pre[r].files \ mine
            /\ BlobsOf(pre[r].files \ mine, pre[r].disk) \subseteq disk
            /\ disk \subseteq pre[r].disk

C13_Witness ==
    \E r \in Requests :
        /\ OpDone(r, "delete_account") /\ resp[r].status = 200
        /\ LET mine == {f \in pre[r].files : f.user_id = Caller(r)} IN
           /\ BlobsOf(mine, pre[r].disk) # {}
           /\ BlobsOf(pre[r].files \ mine, pre[r].disk) # {}

(* the File row a request names by id, if the caller owns it *)
OwnRow(r) == {f \in pre[r].files : f.id = rq[r].id /\ f.user_id = Caller(r)}

(* the File row a request names by id, if somebody else owns it *)
ForeignRow(r) == {f \in pre[r].files : f.id = rq[r].id /\ f.user_id # Caller(r)}

(* C14: delete_file of a file the caller owns answers 200 whether or not the
   blob was still there; afterwards the row and the blob are gone and every
   other row and blob is as it was. *)
C14_DeleteFileRemovesBoth ==
    \A r \in Requests :
        (OpDone(r, "delete_file") /\ Caller(r) # NULL /\ OwnRow(r) # {}) =>
            /\ resp[r].status = 200
            /\ ~\E f \in files : f.id = rq[r].id
            /\ BlobsOf(OwnRow(r), disk) = {}
            /\ files = pre[r].files \ OwnRow(r)
            /\ disk = pre[r].disk \ BlobsOf(OwnRow(r), pre[r].disk)

C14_Witness ==
    \E r \in Requests :
        /\ OpDone(r, "delete_file") /\ resp[r].status = 200
        /\ BlobsOf(OwnRow(r), pre[r].disk) # {}
        /\ pre[r].files \ OwnRow(r) # {}

ByIdOps == {"get_file", "view_file", "download_file", "delete_file"}

(* C15: get, view, download and delete of a File row that belongs to another
   user answer the 404 of an absent file and leave rows and blobs as they
   were; list_files answers the caller's rows and no others. *)
C15_OwnFilesOnly ==
    \A r \in Requests :
        /\ ( /\ pc[r] = "done" /\ rq[r].op \in ByIdOps
             /\ Caller(r) # NULL
             /\ ForeignRow(r) # {} )
           => /\ resp[r].status = 404
              /\ resp[r].error = "File not found"
              /\ resp[r].file = {}
              /\ files = pre[r].files
              /\ disk = pre[r].disk
        /\ (OpDone(r, "list_files") /\ Caller(r) # NULL)
           => /\ resp[r].status = 200
              /\ \A v \in resp[r].files :
                     \E f \in pre[r].files : f.id = v.id /\ f.user_id = Caller(r)
              /\ \A f \in pre[r].files :
                     f.user_id = Caller(r) => \E v \in resp[r].files : v.id = f.id

C15_Witness ==
    \E r \in Requests, q \in ByIdOps :
        /\ OpDone(r, q)
        /\ Caller(r) # NULL
        /\ ForeignRow(r) # {}
        /\ BlobsOf(ForeignRow(r), disk) # {}
        /\ resp[r].status = 404

AuthOps ==
    {"get_current_user", "delete_account", "list_files", "list_drive_files", "import",
     "get_file", "view_file", "download_file", "delete_file", "get_picker_config"}

(* C16: a request of a route that requires a signed-in user, made with no user
   id in the session, answers 401 and changes no user, credential, exchange
   token, File row or blob. *)
C16_Unauthenticated401 ==
    \A r \in Requests :
        (pc[r] = "done" /\ rq[r].op \in AuthOps /\ Caller(r) = NULL) =>
            /\ resp[r].status = 401
            /\ users = pre[r].users
            /\ oauth_tokens = pre[r].oauth_tokens
            /\ auth_tokens = pre[r].auth_tokens
            /\ files = pre[r].files
            /\ disk = pre[r].disk

C16_Witness ==
    \E r \in Requests :
        /\ OpDone(r, "delete_file") /\ Caller(r) = NULL
        /\ \E f \in files : f.id = rq[r].id
        /\ resp[r].status = 401

-----------------------------------------------------------------------------
(* Properties of get_valid_credentials *)

(* the credential stored for the caller when the request began *)
StoredCred(r) == {o \in pre[r].oauth_tokens : o.user_id = Caller(r)}

(* its expiry is absent or not after the instant of the call *)
StoredExpired(r) ==
    \E o \in StoredCred(r) : o.expires_at = NULL \/ o.expires_at <= rq[r].checked_at

(* its expiry is known and not after the instant of the call *)
StoredPast(r) ==
    \E o \in StoredCred(r) : o.expires_at # NULL /\ o.expires_at <= rq[r].checked_at

StoredHasRefreshToken(r) == \E o \in StoredCred(r) : o.refresh_token # NULL

(* C18: a call for a user whose stored credential has an expiry in the past
   and no refresh token returns nothing: the route answers 401 and hands out
   no access token. *)
C18_ExpiredWithoutRefreshIsNothing ==
    \A r \in Requests :
        ( /\ OpDone(r, "get_picker_config") /\ Caller(r) # NULL
          /\ StoredPast(r)
          /\ ~StoredHasRefreshToken(r) )
        => /\ resp[r].status = 401
           /\ resp[r].access_token = NULL

(* C19: a call that returns a credential although the stored expiry was absent
   or in the past has attempted exactly one refresh. *)
C19_ExpiredReturnedOnlyAfterRefresh ==
    \A r \in Requests :
        ( /\ OpDone(r, "get_picker_config") /\ Caller(r) # NULL
          /\ StoredExpired(r)
          /\ resp[r].status = 200 )
        => rq[r].attempts = 1

(* C20: when the refresh of an expired credential raises, the call returns
   nothing and the stored credential is as it was. *)
C20_FailedRefreshChangesNothing ==
    \A r \in Requests :
        ( /\ OpDone(r, "get_picker_config") /\ Caller(r) # NULL
          /\ StoredExpired(r)
          /\ rq[r].refresh = "raised" )
        => /\ resp[r].status = 401
           /\ resp[r].access_token = NULL
           /\ oauth_tokens = pre[r].oauth_tokens

C20_Witness ==
    \E r \in Requests :
        /\ OpDone(r, "get_picker_config") /\ Caller(r) # NULL
        /\ StoredExpired(r) /\ StoredHasRefreshToken(r)
        /\ rq[r].refresh = "raised"
        /\ resp[r].status = 401

(* C21: a stored credential with no expiry counts as expired at every instant,
   and a call for it attempts a refresh whenever it has a refresh token. *)
C21_NullExpiryIsExpired ==
    /\ \A o \in oauth_tokens : o.expires_at = NULL => OAuthTokenIsExpired(o, now)
    /\ \A r \in Requests :
           ( /\ OpDone(r, "get_picker_config") /\ Caller(r) # NULL
             /\ \E o \in StoredCred(r) : o.expires_at = NULL /\ o.refresh_token # NULL )
           => /\ rq[r].attempts = 1
              /\ rq[r].refresh \in {"raised", "answered"}

C21_Witness ==
    \E r \in Requests :
        /\ OpDone(r, "get_picker_config") /\ Caller(r) # NULL
        /\ \E o \in StoredCred(r) : o.expires_at = NULL /\ o.refresh_token # NULL
        /\ rq[r].refresh = "answered"
        /\ resp[r].status = 200

(* a step in which slot r takes and answers a get_picker_config request *)
PickerStep(r) == pc[r] = "idle" /\ pc'[r] = "done" /\ rq'[r].op = "get_picker_config"

(* C22: after a refresh that succeeded the stored credential holds the access
   token and the expiry the provider issued, and is not expired at the instant
   of the call; a call made while the stored expiry lies ahead attempts no
   refresh and leaves the stored credential alone. *)
C22_Stored ==
    \A r \in Requests :
        (OpDone(r, "get_picker_config") /\ rq[r].refresh = "answered") =>
            /\ rq[r].issued # {}
            /\ \A c \in rq[r].issued :
                   /\ resp[r].access_token = c.token
                   /\ \E o \in oauth_tokens :
                          /\ o.user_id = Caller(r)
                          /\ o.access_token = c.token
                          /\ o.expires_at = c.expiry
                          /\ o.expires_at > rq[r].checked_at

C22_NoSecondRefresh ==
    \A r \in Requests :
        ( /\ PickerStep(r)
          /\ \E o \in oauth_tokens :
                 o.user_id = session[rq'[r].b] /\ o.expires_at # NULL /\ now < o.expires_at )
        => /\ rq'[r].attempts = 0
           /\ oauth_tokens' = oauth_tokens

C22_RefreshedIsStored == []C22_Stored /\ [][C22_NoSecondRefresh]_vars

(* a call that needs no refresh, made after a refresh stored a fresh token *)
C22_Witness ==
    \E r \in Requests :
        /\ OpDone(r, "get_picker_config")
        /\ rq[r].attempts = 0
        /\ resp[r].status = 200
        /\ resp[r].access_token \in IssuedAccessVals

(* the requests whose refresh call for user uid is under way *)
Refreshing(uid) == {r \in Requests : pc[r] = "gp_refreshing" /\ rq[r].uid = uid}

(* C23: at every instant at most one refresh call per user is under way. *)
C23_OneRefreshInFlight ==
    \A u \in users : Cardinality(Refreshing(u.id)) <= 1

(* C24: in every reachable state, with callbacks and refreshes interleaving,
   a user has at most one oauth_tokens row. *)
C24_OneCredentialPerUser ==
    \A o1, o2 \in oauth_tokens : o1.user_id = o2.user_id => o1 = o2

(* two callbacks in flight that loaded the same user's row, the first of them
   committed with credentials other than the stored ones *)
C24_Witness ==
    /\ pc["r1"] = "cb_mint" /\ pc["r2"] = "cb_commit"
    /\ rq["r1"].oauth # {} /\ rq["r2"].oauth = rq["r1"].oauth
    /\ rq["r1"].oauth \cap oauth_tokens = {}
    /\ \E o \in oauth_tokens : o.user_id = rq["r1"].uid

(* the users that had the subject of request r's callback when it began *)
KnownSubject(r) == {u \in pre[r].users : u.google_id = rq[r].g}

C25_OneUserPerSubject ==
    \A u1, u2 \in users : u1.google_id = u2.google_id => u1 = u2

C25_ResolvesToExisting ==
    \A r \in Requests : \A u \in KnownSubject(r) \cap users :
        pc[r] = "cb_commit" /\ pc'[r] # "cb_commit"
        => /\ users' = users
           /\ pc'[r] = "cb_mint"
           /\ rq'[r].uid = u.id

(* C25: no two users share a subject id, and the commit of a callback whose
   subject had a user when it began adds no user and goes on for that user,
   whatever email the provider reported. *)
C25_LookupBySubject == []C25_OneUserPerSubject /\ [][C25_ResolvesToExisting]_vars

(* a callback reporting another email than the stored one has committed for
   the user of its subject, next to a user created by a callback *)
C25_Witness ==
    \E r \in Requests : \E u \in KnownSubject(r) \cap users :
        /\ pc[r] = "cb_mint"
        /\ rq[r].e # u.email
        /\ rq[r].uid = u.id
        /\ Cardinality(users) = 2

(* the response of slot r is callback's forced-consent redirect *)
ConsentRetry(r) ==
    /\ pc[r] = "done"
    /\ rq[r].op = "callback"
    /\ rq[r].fault = "scopes"
    /\ resp[r].redirect = "auth_url"

(* C26: a callback the browser reached by following a forced-consent redirect
   does not answer with a forced-consent redirect again. *)
C26_OneRetryPerFlow == ~(ConsentRetry("r1") /\ ConsentRetry("r2"))

(* a callback in which a step raised has answered *)
CallbackRaisedIn(r) ==
    /\ pc[r] = "done"
    /\ rq[r].op = "callback"
    /\ rq[r].fault \notin {"none", "scopes"}

SingleLineEncoded(message) ==
    /\ message # <<>>
    /\ \A i \in DOMAIN message : message[i] \notin {"\n", "\r", " ", "&", "%0A", "%0D"}

(* C27: a callback in which any step raised redirects to the frontend with
   auth=error and a message without line breaks, percent-encoded, and never
   with auth=success. *)
C27_RaisedMeansErrorRedirect ==
    \A r \in Requests :
        CallbackRaisedIn(r) => /\ resp[r].redirect = "frontend_error"
                               /\ SingleLineEncoded(resp[r].message)

(* C28: no response carries an access token stored in oauth_tokens (no
   response has a place for a refresh token). *)
C28_TokensStayServerSide ==
    \A r \in Requests : \A o \in oauth_tokens :
        pc[r] = "done" => resp[r].access_token # o.access_token

(* login or callback has answered browser b and nothing has run since *)
C29_Cleared ==
    \A r \in Requests :
        pc[r] = "done" /\ rq[r].op \in {"login", "callback"} => session[rq[r].b] = NULL

C29_OnlySuccessfulExchange ==
    \A b \in Browsers :
        session[b] = NULL /\ session'[b] # NULL
        => \E r \in Requests : /\ pc'[r] = "done"
                               /\ rq'[r].op = "exchange"
                               /\ rq'[r].b = b
                               /\ resp'[r].status = 200

(* C29: login and callback, whatever the outcome, leave the browser's session
   without a user id, and a session without a user id gets one only by an
   exchange that succeeds. *)
C29_SessionEmptyUntilExchange == []C29_Cleared /\ [][C29_OnlySuccessfulExchange]_vars

StatusDone(r) == pc[r] = "done" /\ rq[r].op = "auth_status"

(* C30: status answers 200; authenticated is true, with the user's view,
   exactly when the session has a user id whose user row and oauth_tokens row
   exist; and the request changes nothing. *)
C30_StatusExact ==
    \A r \in Requests :
        StatusDone(r) =>
            LET uid == pre[r].session[rq[r].b]
                user == {u \in pre[r].users : u.id = uid}
                cred == {o \in pre[r].oauth_tokens : o.user_id = uid}
            IN
            /\ resp[r].status = 200
            /\ resp[r].authenticated <=> (uid # NULL /\ user # {} /\ cred # {})
            /\ resp[r].user = IF resp[r].authenticated
                              THEN {UserToDict(u) : u \in user} ELSE {}
            /\ Snapshot = pre[r]

C30_Witness ==
    \E r \in Requests :
        /\ StatusDone(r)
        /\ resp[r].authenticated
        /\ resp[r].user = {[id |-> 1, email |-> "e1"]}
        /\ \E b \in Browsers : session[b] = NULL

-----------------------------------------------------------------------------
(* Properties of logout, of the deletion of the account and of sessions that
   outlive it *)

C31_LogoutClears ==
    \A r \in Requests :
        OpDone(r, "logout") => /\ session[rq[r].b] = NULL
                               /\ users = pre[r].users
                               /\ oauth_tokens = pre[r].oauth_tokens
                               /\ auth_tokens = pre[r].auth_tokens
                               /\ files = pre[r].files
                               /\ disk = pre[r].disk

C31_SignedOutRefused ==
    \A r \in Requests :
        pc[r] = "done" /\ Caller(r) = NULL =>
            /\ rq[r].op = "auth_status" => resp[r].status = 200 /\ ~resp[r].authenticated
            /\ rq[r].op \in AuthOps => resp[r].status = 401

C31_SignedInByExchangeOnly ==
    \A b \in Browsers :
        session[b] = NULL /\ session'[b] # NULL
        => \E r \in Requests : /\ OpDone(r, "exchange")'
                               /\ rq'[r].b = b
                               /\ resp'[r].authenticated

(* C31: logout leaves the browser's session without a user id and changes no
   row or blob; a browser without a user id gets authenticated=false from
   status and 401 from every route that needs a signed-in user; and only an
   exchange that succeeds gives the session a user id again. *)
C31_LoggedOutUntilExchange ==
    /\ [](C31_LogoutClears /\ C31_SignedOutRefused)
    /\ [][C31_SignedInByExchangeOnly]_vars

-----------------------------------------------------------------------------
(* Properties of the order of callback's steps *)

C32_InOrder ==
    \A r \in Requests :
        /\ pc'[r] = "cb_commit" /\ pc[r] # "cb_commit"
           => pc[r] = "idle" /\ RequiredScopes \subseteq rq'[r].granted
        /\ pc'[r] = "cb_mint" /\ pc[r] # "cb_mint" => pc[r] = "cb_commit"

C32_TokenAfterCommit ==
    auth_tokens' \ auth_tokens # {} =>
        \E r \in Requests :
            /\ pc[r] = "cb_mint" /\ pc'[r] = "done"
            /\ RequiredScopes \subseteq rq[r].granted
            /\ \E u \in users : u.id = rq[r].uid /\ u.google_id = rq[r].g
            /\ \E o \in oauth_tokens : o.user_id = rq[r].uid
            /\ \A t \in auth_tokens' \ auth_tokens : t.user_id = rq[r].uid
            /\ resp'[r].redirect = "frontend_success"

C32_ScopesShortChangesNothing ==
    \A r \in Requests :
        ( /\ pc[r] = "idle" /\ pc'[r] = "done" /\ rq'[r].op = "callback"
          /\ ~(RequiredScopes \subseteq rq'[r].granted) )
        => /\ UNCHANGED <<users, oauth_tokens, auth_tokens>>
           /\ resp'[r].redirect = "auth_url"

(* C32: a callback gets to the commit of user and credential only from the
   scope check with the required scopes granted, and to the exchange token
   only from that commit; every step that stores an exchange token is the
   last step of such a callback, with the user and the credential stored
   already and the token bound to that user; a callback whose granted scopes
   fall short changes no user, credential or exchange token. *)
C32_TokenIssuedInOrder ==
    [][C32_InOrder /\ C32_TokenAfterCommit /\ C32_ScopesShortChangesNothing]_vars

(* a callback granted more than the required scopes has handed out its token,
   and another one whose scopes fell short has answered *)
C32_Witness ==
    \E r1, r2 \in Requests :
        /\ OpDone(r1, "callback") /\ resp[r1].redirect = "frontend_success"
        /\ rq[r1].granted # RequiredScopes
        /\ \E t \in auth_tokens : t.token = resp[r1].token /\ t.user_id = rq[r1].uid
        /\ OpDone(r2, "callback") /\ resp[r2].redirect = "auth_url"

-----------------------------------------------------------------------------
(* Properties of the overwrite path's commit *)

(* an import in flight that has marked an old row for deletion *)
Overwriting(r) == pc[r] \notin {"idle", "done"} /\ rq[r].op = "import" /\ rq[r].pending # {}

C33_OldUntilCommit == \A r \in Requests : Overwriting(r) => rq[r].pending \subseteq files

C33_NewWithoutOld ==
    \A r \in Requests :
        (ImportDone(r) /\ resp[r].status = 201 /\ rq[r].pending # {}) =>
            /\ rq[r].pending \cap files = {}
            /\ \E f \in files : /\ FileToDict(f) \in resp[r].file
                                /\ RowsFor(files, rq[r].uid, rq[r].fid) = {f}

C33_OneCommit ==
    \A r \in Requests :
        Overwriting(r) /\ files' # files
        => /\ ImportDone(r)' /\ resp'[r].status = 201
           /\ files' \ files # {}
           /\ files \ files' = rq[r].pending

(* C33: while an overwriting import is in flight the old row is in the table;
   the one step that takes it out is the step that puts the new row in; and
   after the import has answered 201 the pair has the new row and not the
   old one. *)
C33_OverwriteIsOneTransaction ==
    [](C33_OldUntilCommit /\ C33_NewWithoutOld) /\ [][C33_OneCommit]_vars

C33_Witness ==
    \E r \in Requests :
        /\ ImportDone(r) /\ resp[r].status = 201
        /\ rq[r].pending # {}
        /\ rq[r].pending \subseteq pre[r].files
        /\ rq[r].pending \cap files = {}

-----------------------------------------------------------------------------
(* Properties of the stored refresh token *)

(* the refresh tokens the callback in slot r got from the provider *)
Returned(r) == {c.refresh_token : c \in rq[r].cred} \ {NULL}

C34_Kept ==
    \A o \in oauth_tokens : \A o2 \in oauth_tokens' :
        (o.user_id = o2.user_id /\ o.refresh_token # NULL) =>
            /\ o2.refresh_token # NULL
            /\ o2.refresh_token # o.refresh_token
               => \E r \in Requests : /\ pc[r] = "cb_commit" /\ pc'[r] = "cb_mint"
                                      /\ o2.refresh_token \in Returned(r)

(* C34: a stored refresh token is never replaced by an absent one, neither by
   a callback nor by a refresh; it changes only in the commit of a callback
   and only to the refresh token the provider returned to that callback. *)
C34_RefreshTokenKept == [][C34_Kept]_vars

(* a callback that got no refresh token has committed over a stored one, and
   a refresh has been stored as well *)
C34_Witness ==
    \E r1, r2 \in Requests :
        /\ pc[r1] \in {"cb_mint", "done"} /\ rq[r1].op = "callback"
        /\ rq[r1].cred # {} /\ Returned(r1) = {}
        /\ \E o \in rq[r1].oauth : o.refresh_token # NULL
        /\ OpDone(r2, "get_picker_config") /\ rq[r2].refresh = "answered"
        /\ \E o \in oauth_tokens : o.refresh_token # NULL

-----------------------------------------------------------------------------
(* Properties of rows and blobs at rest *)

(* C35: when no request is in flight, every File row's local path names a
   blob on disk and every blob on disk is named by exactly one File row. *)
C35_LockStepAtRest ==
    (\A r \in Requests : pc[r] \in {"idle", "done"}) =>
        /\ \A f \in files : \E bl \in disk : bl.path = f.local_path
        /\ \A bl \in disk : Cardinality({f \in files : f.local_path = bl.path}) = 1

-----------------------------------------------------------------------------
(* Properties of the sweep of exchange tokens *)

C36_SweptAsExchangeRejects ==
    \A r \in Requests :
        ( /\ pc[r] = "idle" /\ OpDone(r, "callback")'
          /\ resp'[r].redirect = "frontend_success" )
        => \A t \in auth_tokens : t \in auth_tokens' <=> ~AuthTokenIsExpired(t, now)

(* C36: the sweep a callback runs takes out of the table exactly the tokens
   an exchange at that instant would reject as expired. *)
C36_SweepAgreesWithExchange == [][C36_SweptAsExchangeRejects]_vars

-----------------------------------------------------------------------------
(* Properties of a failed exchange *)

(* C37: an exchange that answered 401 or 404 left the user id of the
   browser's session as it was when the exchange began. *)
C37_FailedExchangeKeepsSession ==
    \A r \in Requests :
        (OpDone(r, "exchange") /\ resp[r].status \in {401, 404})
        => session[rq[r].b] = Caller(r)

-----------------------------------------------------------------------------
(* Properties of delete_account and exchange tokens *)

(* C38: delete_account of a signed-in user whose row exists answers 200, and
   afterwards the table has no exchange token of that user. *)
C38_DeleteTakesTokens ==
    \A r \in Requests :
        ( /\ OpDone(r, "delete_account")
          /\ \E u \in pre[r].users : u.id = Caller(r) )
        => /\ resp[r].status = 200
           /\ ~\E t \in auth_tokens : t.user_id = Caller(r)

(* the request's browser was signed in as a user whose row was gone when the
   request began *)
StaleCaller(r) == Caller(r) # NULL /\ ~\E u \in pre[r].users : u.id = Caller(r)

(* C39: a request from a session whose user id names no user row gets
   authenticated=false from status, no success answer from any route that
   needs a signed-in user, and leaves File rows and blobs as they were. *)
C39_StaleSessionRefused ==
    \A r \in Requests :
        (pc[r] = "done" /\ StaleCaller(r)) =>
            /\ rq[r].op = "auth_status" => ~resp[r].authenticated
            /\ rq[r].op \in AuthOps => resp[r].status \notin {200, 201}
            /\ files = pre[r].files
            /\ disk = pre[r].disk

-----------------------------------------------------------------------------
(* Properties of import's responses *)

(* the caller has no usable credential: no row, or an expiry in the past with
   no refresh token, or an expired row whose refresh raised *)
NoValidCredential(r) ==
    \/ StoredCred(r) = {}
    \/ StoredPast(r) /\ ~StoredHasRefreshToken(r)
    \/ StoredExpired(r) /\ StoredHasRefreshToken(r) /\ rq[r].refresh = "raised"

(* faults of the local disk and database, which the precedence does not list *)
LocalFaults == {"FileNotFoundError", "open", "write", "commit"}

(* C17: import answers by precedence: no session 401, no fileId 400, no valid
   credential 401, metadata failure 500, earlier import without overwrite 409
   with the earlier file, unsupported type 400, download failure 500, else 201
   with the new file; a File row is created in the 201 case only. *)
C17_ImportPrecedence ==
    \A r \in Requests :
        ImportDone(r) =>
            /\ IF Caller(r) = NULL THEN resp[r].status = 401
               ELSE IF ~rq[r].has_fid THEN resp[r].status = 400
               ELSE IF NoValidCredential(r) THEN resp[r].status = 401
               ELSE IF ~rq[r].meta_ok THEN resp[r].status = 500
               ELSE IF PriorRows(r) # {} /\ ~rq[r].ow
                    THEN /\ resp[r].status = 409
                         /\ resp[r].file \subseteq {FileToDict(x) : x \in PriorRows(r)}
                         /\ resp[r].file # {}
               ELSE IF OutsideExportTable(rq[r].mime) THEN resp[r].status = 400
               ELSE IF rq[r].fetched /\ rq[r].local_path = <<>> THEN resp[r].status = 500
               ELSE IF resp[r].error \in LocalFaults THEN resp[r].status = 500
               ELSE /\ resp[r].status = 201
                    /\ resp[r].file = {FileToDict(f) : f \in files \ pre[r].files}
                    /\ resp[r].file # {}
            /\ files \ pre[r].files # {} => resp[r].status = 201

====
